---- MODULE Spec2Model ----
(***************************************************************************)
(* Model of breakfloor: the connection registry and message router        *)
(* (network_manager.rs), the level's event queue and per-tick update       *)
(* (level.rs, player.rs) and the asynchronous level load (game.rs), in the *)
(* server build and, further down, in the client build.                    *)
(*                                                                         *)
(* Floating-point values are carried as the bit patterns of their f32 (yaw *)
(* and pitch as opaque words); the physics engine is an external           *)
(* collaborator, so the outcomes the code reads from it (ray-cast hits,    *)
(* ground contact, vertical speed, falling out of the arena, a body moved  *)
(* by its velocity) are nondeterministic inputs of the tick.               *)
(***************************************************************************)
EXTENDS Integers, Sequences, FiniteSets, TLC

\* ------------------------------------------------------------------ bounds

NumAddr == 2
MaxLoads == 3
MaxQueue == 0
MaxOutbound == 0
MaxIndex == 4
NumBlocks == 1
MaxTicks == 7
MaxSettleTicks == 13
MaxBacklog == 1

\* The last index a long-running server has handed out when an exploration
\* of its stream ids begins.
LongRunIndex == 254

MaxRelayTicks == 5

\* ------------------------------------------------------- program constants

DECODE_LIMIT == 1024
MAX_FUEL == 225
FUEL_COST == 3
SYNC_FREQUENCY == 3
SHOT_COOLDOWN_TICKS == 6
RESET_PLAYERS == 2
RELOAD_PLAYERS == 3

None == -1

Addr == 1..NumAddr
Blocks == 1..NumBlocks

\* The level name "block_remake" (game.rs:48), one word per byte.
LEVEL_NAME == <<98, 108, 111, 99, 107, 95, 114, 101, 109, 97, 107, 101>>

\* ------------------------------------------------------- f32 arithmetic
\* An f32 is held as a signed integer: the bit pattern of its magnitude
\* (biased exponent * 2^23 + fraction), negated for a negative value.  The
\* operations round to nearest, ties to even, as the hardware does.  Values
\* stay in the normal range in everything explored; a result below it is
\* flushed to zero.

Pow2(n) == 2 ^ n

Abs(x) == IF x < 0 THEN -x ELSE x

WithSign(negative, magnitude) == IF negative THEN -magnitude ELSE magnitude

\* The biased exponent and the 24-bit significand of a positive f32.
Expo(x) == x \div Pow2(23)

Signif(x) == (x % Pow2(23)) + Pow2(23)

RECURSIVE BitLength(_)
BitLength(n) == IF n = 0 THEN 0 ELSE 1 + BitLength(n \div 2)

\* The f32 with significand m, which is 2^24 when rounding carried, and
\* exponent field e.
Packed(m, e) ==
    IF e + (IF m = Pow2(24) THEN 1 ELSE 0) <= 0 THEN 0
    ELSE e * Pow2(23) + (m - Pow2(23))

\* q, or q + 1 when the bits dropped after it (r of them, half being a
\* half unit) round up: to nearest, ties to even.
RoundedUp(q, r, half, sticky) ==
    IF r > half \/ (r = half /\ (sticky \/ q % 2 = 1)) THEN q + 1 ELSE q

RoundAt(n, x, sticky, drop) ==
    IF drop > 0
    THEN Packed(RoundedUp(n \div Pow2(drop), n % Pow2(drop), Pow2(drop - 1), sticky),
                x + drop + 150)
    ELSE Packed(n * Pow2(-drop), x + drop + 150)

\* The f32 nearest to (n + f) * 2^x, where 0 < f < 1 if sticky and f = 0
\* otherwise: the rounding every operation ends with.
RoundF32(n, x, sticky) == IF n = 0 THEN 0 ELSE RoundAt(n, x, sticky, BitLength(n) - 24)

AddParts(big, small, lost, x, subtract) ==
    RoundF32(IF subtract THEN big - small - (IF lost THEN 1 ELSE 0) ELSE big + small,
             x, lost)

AddAligned(big, small, shift, x, subtract) ==
    AddParts(big,
             IF shift > 29 THEN 0 ELSE small \div Pow2(shift),
             IF shift > 29 THEN TRUE ELSE small % Pow2(shift) # 0,
             x, subtract)

\* a + b for a >= b > 0, and a - b for a >= b > 0.
AddMagnitudes(a, b, subtract) ==
    AddAligned(Signif(a) * 32, Signif(b) * 32, Expo(a) - Expo(b), Expo(a) - 155, subtract)

AddOrdered(hi, lo) ==
    WithSign(hi < 0,
             IF lo = 0 THEN Abs(hi)
             ELSE AddMagnitudes(Abs(hi), Abs(lo), (hi < 0) # (lo < 0)))

F32Add(a, b) == IF Abs(a) >= Abs(b) THEN AddOrdered(a, b) ELSE AddOrdered(b, a)

F32Sub(a, b) == F32Add(a, -b)

\* a * b for a, b > 0, the significands multiplied in halves of 12 bits.
MulMagnitudes(a, b) ==
    LET a1 == Signif(a) \div Pow2(12)
        a0 == Signif(a) % Pow2(12)
        b1 == Signif(b) \div Pow2(12)
        b0 == Signif(b) % Pow2(12)
        mid == a1 * b0 + a0 * b1
        low == a0 * b0 + (mid % Pow2(12)) * Pow2(12)
        hi == a1 * b1 + mid \div Pow2(12) + low \div Pow2(24)
        lo == low % Pow2(24)
    IN RoundF32(hi * 64 + lo \div Pow2(18), Expo(a) + Expo(b) - 300 + 18,
                lo % Pow2(18) # 0)

F32Mul(a, b) ==
    IF a = 0 \/ b = 0 THEN 0
    ELSE WithSign((a < 0) # (b < 0), MulMagnitudes(Abs(a), Abs(b)))

\* <<floor(n * 2^k / d), the remainder>>, one quotient bit at a time.
RECURSIVE LongDivide(_, _, _)
LongDivide(n, d, k) ==
    IF k = 0 THEN <<n \div d, n % d>>
    ELSE LET p == LongDivide(n, d, k - 1)
         IN <<2 * p[1] + (2 * p[2]) \div d, (2 * p[2]) % d>>

\* The f32 nearest to what `parts`, a pair <<whole, rest>>, stands for:
\* (whole + f) * 2^x with f > 0 if there is a rest.
RoundParts(parts, x) == RoundF32(parts[1], x, parts[2] # 0)

\* a / b for a, b > 0.
DivMagnitudes(a, b) ==
    RoundParts(LongDivide(Signif(a), Signif(b), 26), Expo(a) - Expo(b) - 26)

F32Div(a, b) ==
    IF a = 0 THEN 0
    ELSE WithSign((a < 0) # (b < 0), DivMagnitudes(Abs(a), Abs(b)))

\* <<floor(sqrt(n * 4^k)), the remainder>>, one root bit at a time.
RECURSIVE RootAndRest(_, _)
RootAndRest(n, k) ==
    IF n = 0 THEN <<0, 0>>
    ELSE LET p == IF k > 0 THEN RootAndRest(n, k - 1) ELSE RootAndRest(n \div 4, 0)
             rest == 4 * p[2] + (IF k > 0 THEN 0 ELSE n % 4)
         IN IF rest >= 4 * p[1] + 1
            THEN <<2 * p[1] + 1, rest - (4 * p[1] + 1)>>
            ELSE <<2 * p[1], rest>>

\* The root of m * 2^x for an even x.
RootOf(m, x) == RoundParts(RootAndRest(m, 14), x \div 2 - 14)

\* f32::sqrt for a >= 0.
F32Sqrt(a) ==
    IF a = 0 THEN 0
    ELSE IF (Expo(a) - 150) % 2 = 1
         THEN RootOf(2 * Signif(a), Expo(a) - 151)
         ELSE RootOf(Signif(a), Expo(a) - 150)

\* a % b for a >= 0, b > 0: the exact remainder (fmod).
RECURSIVE ShiftedRemainder(_, _, _)
ShiftedRemainder(r, d, k) ==
    IF k = 0 THEN r % d ELSE (2 * ShiftedRemainder(r, d, k - 1)) % d

F32Rem(a, b) ==
    IF a < b THEN a
    ELSE RoundF32(ShiftedRemainder(Signif(a), Signif(b), Expo(a) - Expo(b)),
                  Expo(b) - 150, FALSE)

\* `n as f32` for a non-negative integer.
F32FromInt(n) == RoundF32(n, 0, FALSE)

\* main.rs: const TIMESTEP: f32 = 1.0 / 60.0, the fixed step of the loop.
TIMESTEP == F32Div(F32FromInt(1), F32FromInt(60))

\* The loop's clock after n steps: `elapsed_time += TIMESTEP` from 0.0.
RECURSIVE ClockAfter(_)
ClockAfter(n) == IF n = 0 THEN 0 ELSE F32Add(ClockAfter(n - 1), TIMESTEP)

\* ------------------------------------------------------------ wire format
\* bincode with fixed-width integers: an enum is a u32 variant tag followed
\* by the variant's fields in declaration order; a String or Vec is a u64
\* length followed by its elements.  A payload is a sequence of words, one
\* per encoded scalar; Width gives the bytes each takes (for the size limit).

Width(kind) ==
    CASE kind = "u32" -> 4
      [] kind = "f32" -> 4
      [] kind = "bool" -> 1
      [] kind = "u8" -> 1
      [] kind = "u64" -> 8

ValidWord(kind, w) ==
    CASE kind = "bool" -> w \in {0, 1}
      [] kind = "f32" -> TRUE
      [] OTHER -> w >= 0

\* Field layouts of the PlayerEvent variants, by variant tag.
EventTypes ==
    <<"ShootWeapon", "MoveForward", "MoveBackward", "MoveLeft", "MoveRight",
      "Fly", "Jump", "LookAround", "UpdateState", "DestroyBlock", "KillPlayer",
      "KillPlayerFromIntersection", "SpawnPlayer", "Reload">>

EventLayout(type) ==
    CASE type \in {"ShootWeapon", "MoveForward", "MoveBackward", "MoveLeft", "MoveRight"}
            -> <<"u32", "bool", "f32", "f32">>
      [] type = "Fly" -> <<"u32", "bool", "u32">>
      [] type \in {"Jump", "DestroyBlock", "KillPlayer", "Reload"} -> <<"u32">>
      [] type = "LookAround" -> <<"u32", "f32", "f32">>
      [] type = "UpdateState"
            -> <<"f32", "u32", "f32", "f32", "f32", "f32", "f32", "f32",
                 "f32", "f32", "bool", "u32">>
      [] type = "KillPlayerFromIntersection" -> <<>>
      [] type = "SpawnPlayer"
            -> <<"f32", "f32", "f32", "f32", "f32", "f32", "f32", "f32", "bool",
                 "u32", "bool">>

GameEventTypes == <<"Connected", "Disconnected", "LoadLevel", "LoadedLevel", "Joined">>

MessageTags == <<"Connected", "Disconnected", "PlayerEvent", "GameEvent">>

Zero3 == <<0, 0, 0>>

\* A PlayerEvent or GameEvent value; fields a variant does not have keep
\* these defaults.  LookAround's yaw_delta/pitch_delta are held in yaw/pitch;
\* collider is the index of the player a KillPlayerFromIntersection hit.
NoEvent ==
    [type |-> "None", index |-> 0, active |-> FALSE, yaw |-> 0, pitch |-> 0,
     fuel |-> 0, current_player |-> FALSE, timestamp |-> 0, position |-> Zero3,
     velocity |-> Zero3, shoot |-> FALSE, collider |-> None,
     level |-> <<>>, state |-> <<>>]

NetworkMessage(tag, index, event) == [tag |-> tag, index |-> index, event |-> event]

BoolWord(b) == IF b THEN 1 ELSE 0

TagOf(names, name) == (CHOOSE i \in 1..Len(names) : names[i] = name) - 1

\* serialize(): the words of a PlayerEvent's fields.
EventWords(e) ==
    CASE e.type \in {"ShootWeapon", "MoveForward", "MoveBackward", "MoveLeft", "MoveRight"}
            -> <<e.index, BoolWord(e.active), e.yaw, e.pitch>>
      [] e.type = "Fly" -> <<e.index, BoolWord(e.active), e.fuel>>
      [] e.type \in {"Jump", "DestroyBlock", "KillPlayer", "Reload"} -> <<e.index>>
      [] e.type = "LookAround" -> <<e.index, e.yaw, e.pitch>>
      [] e.type = "UpdateState"
            -> <<e.timestamp, e.index>> \o e.position \o e.velocity
               \o <<e.yaw, e.pitch, BoolWord(e.shoot), e.fuel>>
      [] e.type = "KillPlayerFromIntersection" -> <<>>
      [] e.type = "SpawnPlayer"
            -> e.position \o e.velocity
               \o <<e.yaw, e.pitch, BoolWord(e.shoot), e.index, BoolWord(e.current_player)>>

GameEventWords(e) ==
    IF e.type = "LoadLevel"
    THEN <<Len(e.level)>> \o e.level \o <<Len(e.state)>> \o e.state
    ELSE <<>>

serialize(m) ==
    CASE m.tag = "PlayerEvent"
            -> <<TagOf(MessageTags, m.tag), m.index, TagOf(EventTypes, m.event.type)>>
               \o EventWords(m.event)
      [] m.tag = "GameEvent"
            -> <<TagOf(MessageTags, m.tag), TagOf(GameEventTypes, m.event.type)>>
               \o GameEventWords(m.event)
      [] OTHER -> <<TagOf(MessageTags, m.tag)>>

DecodeError == [ok |-> FALSE, vals |-> <<>>, pos |-> 0, used |-> 0]

\* Reads the scalars of `kinds` from words[pos..]; fails at the end of the
\* input, on a word that is no value of its kind, and when the bytes read
\* would pass the limit.
RECURSIVE ReadFields(_, _, _, _)
ReadFields(kinds, words, pos, used) ==
    IF kinds = <<>>
    THEN [ok |-> TRUE, vals |-> <<>>, pos |-> pos, used |-> used]
    ELSE LET k == Head(kinds) IN
         IF \/ pos > Len(words)
            \/ used + Width(k) > DECODE_LIMIT
            \/ ~ValidWord(k, words[pos])
         THEN DecodeError
         ELSE LET r == ReadFields(Tail(kinds), words, pos + 1, used + Width(k)) IN
              IF r.ok THEN [r EXCEPT !.vals = <<words[pos]>> \o r.vals] ELSE DecodeError

\* Reads n elements of `kind`: fails like ReadFields, wherever the first
\* failure is.
ReadN(kind, n, words, pos, used) ==
    IF \/ pos + n - 1 > Len(words)
       \/ used + n * Width(kind) > DECODE_LIMIT
       \/ \E i \in pos..(pos + n - 1) : ~ValidWord(kind, words[i])
    THEN DecodeError
    ELSE [ok |-> TRUE, vals |-> SubSeq(words, pos, pos + n - 1), pos |-> pos + n,
          used |-> used + n * Width(kind)]

\* Reads a u64 length and then that many elements of `kind`.
ReadSeq(kind, words, pos, used) ==
    LET len == ReadFields(<<"u64">>, words, pos, used) IN
    IF ~len.ok THEN DecodeError
    ELSE ReadN(kind, len.vals[1], words, len.pos, len.used)

EventOfFields(type, v) ==
    CASE type \in {"ShootWeapon", "MoveForward", "MoveBackward", "MoveLeft", "MoveRight"}
            -> [NoEvent EXCEPT !.type = type, !.index = v[1], !.active = (v[2] = 1),
                               !.yaw = v[3], !.pitch = v[4]]
      [] type = "Fly"
            -> [NoEvent EXCEPT !.type = type, !.index = v[1], !.active = (v[2] = 1),
                               !.fuel = v[3]]
      [] type \in {"Jump", "DestroyBlock", "KillPlayer", "Reload"}
            -> [NoEvent EXCEPT !.type = type, !.index = v[1]]
      [] type = "LookAround"
            -> [NoEvent EXCEPT !.type = type, !.index = v[1], !.yaw = v[2], !.pitch = v[3]]
      [] type = "UpdateState"
            -> [NoEvent EXCEPT !.type = type, !.timestamp = v[1], !.index = v[2],
                               !.position = <<v[3], v[4], v[5]>>,
                               !.velocity = <<v[6], v[7], v[8]>>,
                               !.yaw = v[9], !.pitch = v[10], !.shoot = (v[11] = 1),
                               !.fuel = v[12]]
      [] type = "KillPlayerFromIntersection" -> [NoEvent EXCEPT !.type = type]
      [] type = "SpawnPlayer"
            -> [NoEvent EXCEPT !.type = type,
                               !.position = <<v[1], v[2], v[3]>>,
                               !.velocity = <<v[4], v[5], v[6]>>,
                               !.yaw = v[7], !.pitch = v[8], !.shoot = (v[9] = 1),
                               !.index = v[10], !.current_player = (v[11] = 1)]

NoMessage == NetworkMessage("None", 0, NoEvent)

Decoded(m) == [ok |-> TRUE, msg |-> m]

Undecodable == [ok |-> FALSE, msg |-> NoMessage]

DecodePlayerEvent(words) ==
    LET head == ReadFields(<<"u32", "u32">>, words, 2, 4) IN
    IF ~head.ok \/ head.vals[2] >= Len(EventTypes) THEN Undecodable
    ELSE LET type == EventTypes[head.vals[2] + 1]
             body == ReadFields(EventLayout(type), words, head.pos, head.used)
         IN IF ~body.ok THEN Undecodable
            ELSE Decoded(NetworkMessage("PlayerEvent", head.vals[1],
                                        EventOfFields(type, body.vals)))

DecodeGameEvent(words) ==
    LET head == ReadFields(<<"u32">>, words, 2, 4) IN
    IF ~head.ok \/ head.vals[1] >= Len(GameEventTypes) THEN Undecodable
    ELSE LET type == GameEventTypes[head.vals[1] + 1] IN
         IF type # "LoadLevel"
         THEN Decoded(NetworkMessage("GameEvent", 0, [NoEvent EXCEPT !.type = type]))
         ELSE LET name == ReadSeq("u8", words, head.pos, head.used) IN
              IF ~name.ok THEN Undecodable
              ELSE LET blocks == ReadSeq("u32", words, name.pos, name.used) IN
                   IF ~blocks.ok THEN Undecodable
                   ELSE Decoded(NetworkMessage("GameEvent", 0,
                            [NoEvent EXCEPT !.type = type, !.level = name.vals,
                                            !.state = blocks.vals]))

\* bincode.deserialize::<NetworkMessage>() with_fixint_encoding,
\* allow_trailing_bytes and with_limit(1024).
deserialize(words) ==
    LET tag == ReadFields(<<"u32">>, words, 1, 0) IN
    IF ~tag.ok \/ tag.vals[1] >= Len(MessageTags) THEN Undecodable
    ELSE CASE tag.vals[1] = 0 -> Decoded(NetworkMessage("Connected", 0, NoEvent))
           [] tag.vals[1] = 1 -> Decoded(NetworkMessage("Disconnected", 0, NoEvent))
           [] tag.vals[1] = 2 -> DecodePlayerEvent(words)
           [] tag.vals[1] = 3 -> DecodeGameEvent(words)

\* ------------------------------------------------------------------ state

VARIABLES
    connections,            \* NetworkManager.connections: Vec<PlayerConnection>
    highest_player_index,   \* NetworkManager.highest_player_index
    player_index,           \* NetworkManager.player_index (None or an index)
    net_sender,             \* packets queued for the socket thread
    level,                  \* Game.level: Option<Level>
    game_events,            \* Game.event_sender / event_receiver
    load_context,           \* Game.load_context: None or the id of a handoff slot
    contexts,               \* the handoff slots (Arc<Mutex<LoadContext>>) made so far
    workers,                \* the load worker threads still running
    elapsed_time,           \* the main loop's clock, an f32 of seconds
    linked,                 \* addresses the transport holds a connection for
    build,                  \* which build runs: cfg(feature = "server") or not
    departed,               \* history: indices of connections that were removed
    last                    \* history: the event handled by the last step

vars ==
    <<connections, highest_player_index, player_index, net_sender, level, game_events,
      load_context, contexts, workers, elapsed_time, linked, build, departed, last>>

SERVER_ADDR == 0

\* ----------------------------------------------------------------- values

PlayerConnection(address, index) == [socket_addr |-> address, player_index |-> index]

NoController ==
    [move_forward |-> FALSE, move_backward |-> FALSE, move_left |-> FALSE,
     move_right |-> FALSE, jump |-> FALSE, fly |-> FALSE, shoot |-> FALSE]

\* Player::new: full fuel, no cooldown, shoot taken from the spawn state.
NewPlayer(index, position, shoot, current_player) ==
    [index |-> index, shot_timer |-> 0, flight_fuel |-> MAX_FUEL, tag |-> "player",
     position |-> position, current_player |-> current_player,
     controller |-> [NoController EXCEPT !.shoot = shoot]]

FreshScene == [b \in Blocks |-> "block"]

\* Level::new: no players, an empty queue, no destroyed blocks.
NewLevel(name) ==
    [some |-> TRUE, name |-> name, players |-> <<>>, events |-> <<>>,
     state |-> <<>>, scene |-> FreshScene]

NoLevel ==
    [some |-> FALSE, name |-> <<>>, players |-> <<>>, events |-> <<>>,
     state |-> <<>>, scene |-> FreshScene]

EmptySlot == [some |-> FALSE, name |-> <<>>, state |-> <<>>]

LoadLevelEvent(name, state) == [NoEvent EXCEPT !.type = "LoadLevel", !.level = name, !.state = state]

GameEvent(type) == [NoEvent EXCEPT !.type = type]

KillPlayerEvent(index) == [NoEvent EXCEPT !.type = "KillPlayer", !.index = index]

\* The spawn placement rule: z = 5.0 * (-1)^index.
SpawnPosition(index) ==
    <<0, F32FromInt(2), IF index % 2 = 0 THEN F32FromInt(5) ELSE -F32FromInt(5)>>

SpawnPlayerEvent(index, position, shoot, current_player) ==
    [NoEvent EXCEPT !.type = "SpawnPlayer", !.index = index, !.position = position,
                    !.shoot = shoot, !.current_player = current_player]

PlayerEventMessage(index, event) == NetworkMessage("PlayerEvent", index, event)

GameEventMessage(event) == NetworkMessage("GameEvent", 0, event)

Packet(address, delivery, stream, payload) ==
    [addr |-> address, delivery |-> delivery, stream |-> stream, payload |-> payload]

\* --------------------------------------------------------------- registry

RECURSIVE SeqMax(_)
SeqMax(s) == IF Len(s) = 1 THEN s[1] ELSE LET m == SeqMax(Tail(s)) IN IF s[1] > m THEN s[1] ELSE m

Indices(conns) == [i \in 1..Len(conns) |-> conns[i].player_index]

\* A registry that numbers every connection from the persistent counter alone.
SameIndexAgain(conns, highest) == IF highest = 0 THEN 1 ELSE highest

\* The highest index among the connections, or the last index assigned when
\* there is none, plus one.
NextPlayerIndex(conns, highest) ==
    (IF conns = <<>> THEN highest ELSE SeqMax(Indices(conns))) + 1

get_index_for_address(conns, address) ==
    IF \E i \in 1..Len(conns) : conns[i].socket_addr = address
    THEN conns[CHOOSE i \in 1..Len(conns) :
                   /\ conns[i].socket_addr = address
                   /\ \A j \in 1..(i - 1) : conns[j].socket_addr # address].player_index
    ELSE None

\* A stream id that is the whole index, not its low byte.
WholeIndex(connection) == connection.player_index

get_connection_stream_id(connection) == connection.player_index % 256

get_address_stream_id(conns, address) ==
    IF address = SERVER_ADDR THEN 0
    ELSE LET index == get_index_for_address(conns, address) IN
         IF index = None THEN None ELSE index % 256

\* A registry that forgets nobody.
KeepEveryone(conns, address) == conns

RetainOthers(conns, address) ==
    LET Keep(c) == c.socket_addr # address IN SelectSeq(conns, Keep)

\* ------------------------------------------------------------------ sends

send_to_all_reliably(conns, message) ==
    [i \in 1..Len(conns) |->
        Packet(conns[i].socket_addr, "reliable_ordered",
               get_connection_stream_id(conns[i]), serialize(message))]

send_to_all_except_address_reliably(conns, address, message) ==
    send_to_all_reliably(RetainOthers(conns, address), message)

RECURSIVE Repeat(_, _)
Repeat(x, n) == IF n <= 0 THEN <<>> ELSE <<x>> \o Repeat(x, n - 1)

RECURSIVE Flatten(_)
Flatten(ss) == IF ss = <<>> THEN <<>> ELSE Head(ss) \o Flatten(Tail(ss))

send_to_all_unreliably(conns, message, redundancy) ==
    Flatten([i \in 1..Len(conns) |->
        Repeat(Packet(conns[i].socket_addr, "unreliable_sequenced", None,
                      serialize(message)), redundancy + 1)])

\* A relay that leaves nobody out.
ToEveryone(conns, address, message, redundancy) ==
    send_to_all_unreliably(conns, message, redundancy)

send_to_all_except_address_unreliably(conns, address, message, redundancy) ==
    send_to_all_unreliably(RetainOthers(conns, address), message, redundancy)

\* A send that reaches every connection instead of one address.
ToAllInstead(conns, address, message) == send_to_all_reliably(conns, message)

send_to_address_reliably(conns, address, message) ==
    <<Packet(address, "reliable_ordered", get_address_stream_id(conns, address),
             serialize(message))>>

\* ------------------------------------------------------------------ level

HasPlayer(players, index) == \E i \in 1..Len(players) : players[i].index = index

PlayerPos(players, index) ==
    CHOOSE i \in 1..Len(players) :
        /\ players[i].index = index
        /\ \A j \in 1..(i - 1) : players[j].index # index

get_player_by_index(players, index) == players[PlayerPos(players, index)]

\* A jet that fires whatever the tank holds.
NeverEmpty(player) == TRUE

has_fuel(player) == player.flight_fuel >= FUEL_COST

can_shoot(player) == player.shot_timer <= 0

remove_player(players, index) ==
    LET Keep(p) == p.index # index IN SelectSeq(players, Keep)

\* ----------------------------------------------------------------- router
\* What handling one packet adds: events queued into the level, packets
\* queued for sending, events queued for the game.

Routed(queued, sent, game) == [queued |-> queued, sent |-> sent, game |-> game]

Dropped == Routed(<<>>, <<>>, <<>>)

\* A validation that lets every shot through.
EveryShotAccepted(active, player) == TRUE

\* A validation that looks at the cooldown alone.
OnlyWhenReady(active, player) == can_shoot(player)

\* "Validate shoot command"
ShootAccepted(active, player) == ~active \/ can_shoot(player)

\* "Validate fly command"
FlyAccepted(active, player) == ~active \/ has_fuel(player)

\* `*index = net_index` inside the match arm: `index` there is the field of
\* the inner event (it shadows the envelope's), so the envelope keeps the
\* index the client sent.
OverwriteIndex(message, net_index) ==
    [message EXCEPT !.event.index = net_index]

RouteShootWeapon(conns, lvl, address, message) ==
    LET net_index == get_index_for_address(conns, address) IN
    IF net_index = None THEN Dropped
    ELSE LET stamped == OverwriteIndex(message, net_index) IN
         IF /\ HasPlayer(lvl.players, net_index)
            /\ ShootAccepted(stamped.event.active,
                             get_player_by_index(lvl.players, net_index))
         THEN Routed(<<stamped.event>>, send_to_all_reliably(conns, stamped), <<>>)
         ELSE Dropped

RouteMovement(conns, lvl, address, message) ==
    LET net_index == get_index_for_address(conns, address) IN
    IF net_index = None THEN Dropped
    ELSE LET stamped == OverwriteIndex(message, net_index) IN
         Routed(<<stamped.event>>,
                send_to_all_except_address_unreliably(conns, address, stamped, 0),
                <<>>)

\* A Fly relayed the way a movement event is.
FlyAsMovement(conns, lvl, address, message) ==
    RouteMovement(conns, lvl, address, message)

RouteFly(conns, lvl, address, message) ==
    LET net_index == get_index_for_address(conns, address) IN
    IF net_index = None \/ ~HasPlayer(lvl.players, net_index) THEN Dropped
    ELSE LET player == get_player_by_index(lvl.players, net_index)
             stamped == [OverwriteIndex(message, net_index)
                            EXCEPT !.event.fuel = player.flight_fuel]
         IN IF FlyAccepted(stamped.event.active, player)
            THEN Routed(<<stamped.event>>,
                        send_to_all_except_address_unreliably(conns, address, stamped, 0),
                        <<>>)
            ELSE Dropped

RoutePlayerEvent(conns, lvl, address, message) ==
    IF ~lvl.some THEN Dropped
    ELSE CASE message.event.type = "ShootWeapon"
                -> RouteShootWeapon(conns, lvl, address, message)
           [] message.event.type \in
                {"LookAround", "MoveBackward", "MoveForward", "MoveLeft", "MoveRight"}
                -> RouteMovement(conns, lvl, address, message)
           [] message.event.type = "Jump" -> Routed(<<message.event>>, <<>>, <<>>)
           [] message.event.type = "Fly" -> RouteFly(conns, lvl, address, message)
           [] message.event.type = "SpawnPlayer" -> Routed(<<message.event>>, <<>>, <<>>)
           [] OTHER -> Dropped

\* (a) "Send events to spawn existing players for player that joined"
SpawnExisting(conns, players, address) ==
    Flatten([i \in 1..Len(players) |->
        send_to_address_reliably(conns, address,
            PlayerEventMessage(players[i].index,
                SpawnPlayerEvent(players[i].index, players[i].position,
                                 players[i].controller.shoot, FALSE)))])

\* (b) "Send spawn player event to all other players"
SpawnForOthers(conns, address, index) ==
    send_to_all_except_address_reliably(conns, address,
        PlayerEventMessage(index,
            SpawnPlayerEvent(index, SpawnPosition(index), FALSE, FALSE)))

\* A joiner told of its own player as of a remote one.
SpawnAsRemote(conns, address, index) ==
    send_to_address_reliably(conns, address,
        PlayerEventMessage(index,
            SpawnPlayerEvent(index, SpawnPosition(index), FALSE, FALSE)))

\* (c) "Send spawn player event to player (with current player true ...)"
SpawnForJoiner(conns, address, index) ==
    send_to_address_reliably(conns, address,
        PlayerEventMessage(index,
            SpawnPlayerEvent(index, SpawnPosition(index), FALSE, TRUE)))

RouteJoined(conns, lvl, address) ==
    LET index == get_index_for_address(conns, address) IN
    IF ~lvl.some \/ index = None THEN Dropped
    ELSE Routed(<<SpawnPlayerEvent(index, SpawnPosition(index), FALSE, FALSE)>>,
                SpawnExisting(conns, lvl.players, address)
                    \o SpawnForOthers(conns, address, index)
                    \o SpawnForJoiner(conns, address, index),
                <<>>)

RouteGameEvent(conns, lvl, address, message) ==
    LET joined == IF message.event.type = "Joined"
                  THEN RouteJoined(conns, lvl, address)
                  ELSE Dropped
    IN [joined EXCEPT !.game = <<message.event>>]

\* "Respond to connected (first) packet so client can connect."
EchoConnected(address, payload) ==
    Routed(<<>>, <<Packet(address, "reliable_ordered", None, payload)>>, <<>>)

\* A router that answers whatever it receives.
EchoAnything(conns, lvl, address, payload) == EchoConnected(address, payload)

\* SocketEvent::Packet
RoutePacket(conns, lvl, address, payload) ==
    LET decoded == deserialize(payload) IN
    IF ~decoded.ok THEN Dropped
    ELSE CASE decoded.msg.tag = "PlayerEvent"
                -> RoutePlayerEvent(conns, lvl, address, decoded.msg)
           [] decoded.msg.tag = "GameEvent"
                -> RouteGameEvent(conns, lvl, address, decoded.msg)
           [] decoded.msg.tag = "Connected" -> EchoConnected(address, payload)
           [] OTHER -> Dropped

\* ------------------------------------------------------------ level update
\* The tick threads a record through its steps: the level's players, event
\* queue, destroyed blocks and scene, the packets sent (out), the game
\* events queued (gev) and NetworkManager.player_index (pidx).

\* An arm that sets the flag of every player of the level.
SetFlagForAll(players, index, flag, value) ==
    [n \in 1..Len(players) |->
        CASE flag = "shoot" -> [players[n] EXCEPT !.controller.shoot = value]
          [] flag = "move_forward" -> [players[n] EXCEPT !.controller.move_forward = value]
          [] flag = "move_backward" -> [players[n] EXCEPT !.controller.move_backward = value]
          [] flag = "move_left" -> [players[n] EXCEPT !.controller.move_left = value]
          [] flag = "move_right" -> [players[n] EXCEPT !.controller.move_right = value]
          [] flag = "jump" -> [players[n] EXCEPT !.controller.jump = value]
          [] flag = "fly" -> [players[n] EXCEPT !.controller.fly = value]]

SetFlag(players, index, flag, value) ==
    IF ~HasPlayer(players, index) THEN players
    ELSE LET i == PlayerPos(players, index) IN
         CASE flag = "shoot" -> [players EXCEPT ![i].controller.shoot = value]
           [] flag = "move_forward" -> [players EXCEPT ![i].controller.move_forward = value]
           [] flag = "move_backward" -> [players EXCEPT ![i].controller.move_backward = value]
           [] flag = "move_left" -> [players EXCEPT ![i].controller.move_left = value]
           [] flag = "move_right" -> [players EXCEPT ![i].controller.move_right = value]
           [] flag = "jump" -> [players EXCEPT ![i].controller.jump = value]
           [] flag = "fly" -> [players EXCEPT ![i].controller.fly = value]

\* A lookup that finds a node at every block index, removed or not.
StillThere(scene, index) == index \in Blocks

\* scene.graph.handle_from_index(index) names a node that is still there.
ValidBlock(scene, index) == index \in Blocks /\ scene[index] # "removed"

\* Level::destroy_block
destroy_block(S, index) ==
    IF ValidBlock(S.scene, index)
    THEN [S EXCEPT !.scene[index] = "removed", !.state = Append(@, index)]
    ELSE S

\* A spawn that does not look for a player of that index first.
SpawnAgain(S, e) ==
    [S EXCEPT
        !.pidx = IF e.current_player THEN e.index ELSE @,
        !.players = Append(@, NewPlayer(e.index, e.position, e.shoot, e.current_player))]

\* Level::spawn_player
spawn_player(S, e) ==
    IF HasPlayer(S.players, e.index) THEN S
    ELSE [S EXCEPT
            !.pidx = IF e.current_player THEN e.index ELSE @,
            !.players = Append(@, NewPlayer(e.index, e.position, e.shoot, e.current_player))]

\* PlayerEvent::KillPlayerFromIntersection (server)
KillFromIntersection(conns, S, e) ==
    IF ~HasPlayer(S.players, e.collider) THEN S
    ELSE LET kill_event == KillPlayerEvent(e.collider) IN
         [S EXCEPT
            !.out = @ \o send_to_all_reliably(conns,
                            PlayerEventMessage(e.collider, kill_event)),
            !.events = Append(@, kill_event),
            !.gev = IF Len(S.players) < RELOAD_PLAYERS
                    THEN Append(@, LoadLevelEvent(S.name, <<>>))
                    ELSE @]

\* One arm of the match in Level::update.
ApplyEvent(conns, S, e) ==
    CASE e.type = "ShootWeapon" -> [S EXCEPT !.players = SetFlag(@, e.index, "shoot", e.active)]
      [] e.type = "MoveForward"
            -> [S EXCEPT !.players = SetFlag(@, e.index, "move_forward", e.active)]
      [] e.type = "MoveBackward"
            -> [S EXCEPT !.players = SetFlag(@, e.index, "move_backward", e.active)]
      [] e.type = "MoveLeft"
            -> [S EXCEPT !.players = SetFlag(@, e.index, "move_left", e.active)]
      [] e.type = "MoveRight"
            -> [S EXCEPT !.players = SetFlag(@, e.index, "move_right", e.active)]
      [] e.type = "Jump" -> [S EXCEPT !.players = SetFlag(@, e.index, "jump", TRUE)]
      [] e.type = "Fly" -> [S EXCEPT !.players = SetFlag(@, e.index, "fly", e.active)]
      [] e.type = "DestroyBlock" -> destroy_block(S, e.index)
      [] e.type = "KillPlayerFromIntersection" -> KillFromIntersection(conns, S, e)
      [] e.type = "KillPlayer" -> [S EXCEPT !.players = remove_player(@, e.index)]
      [] e.type = "SpawnPlayer" -> spawn_player(S, e)
      [] OTHER -> S

\* A drain that takes the newest event first.
RECURSIVE DrainNewestFirst(_, _)
DrainNewestFirst(conns, S) ==
    IF S.events = <<>> THEN S
    ELSE DrainNewestFirst(conns,
             ApplyEvent(conns, [S EXCEPT !.events = SubSeq(@, 1, Len(@) - 1)],
                        S.events[Len(S.events)]))

\* `while let Ok(action) = self.receiver.try_recv()`: events queued while
\* draining are applied in the same drain.
RECURSIVE DrainEvents(_, _)
DrainEvents(conns, S) ==
    IF S.events = <<>> THEN S
    ELSE DrainEvents(conns, ApplyEvent(conns, [S EXCEPT !.events = Tail(@)], Head(S.events)))

\* What the physics engine reports to one player's update.
NoHit == [kind |-> "none", id |-> 0]

Physics(vy_low, ground, hit, fell) ==
    [vy_low |-> vy_low, ground |-> ground, hit |-> hit, fell |-> fell]

Targets(players, scene, p) ==
    {NoHit}
        \cup {[kind |-> "block", id |-> b] : b \in {x \in Blocks : scene[x] # "removed"}}
        \cup {[kind |-> "player", id |-> players[i].index] :
                 i \in {j \in 1..Len(players) : players[j].index # p.index}}

\* The reports that can change what the update does.  `world` names the
\* surroundings explored: in "arena" rays hit blocks and players and players
\* fall out of the arena; in "gallery" rays hit blocks only and nobody
\* falls; in "void" rays hit nothing and nobody falls.
PhysicsFor(world, players, scene, p) ==
    {Physics(v, g, h, f) :
        v \in (IF p.controller.fly /\ has_fuel(p) THEN BOOLEAN ELSE {TRUE}),
        g \in (IF p.controller.jump THEN BOOLEAN ELSE {FALSE}),
        h \in (IF world \in {"arena", "gallery"} /\ p.controller.shoot /\ p.shot_timer <= 1
               THEN {t \in Targets(players, scene, p) :
                        world = "arena" \/ t.kind # "player"}
               ELSE {NoHit}),
        f \in (IF world = "arena" THEN BOOLEAN ELSE {FALSE})}

RECURSIVE SeqsOver(_)
SeqsOver(sets) ==
    IF sets = <<>> THEN {<<>>}
    ELSE {<<x>> \o r : x \in Head(sets), r \in SeqsOver(Tail(sets))}

PhysicsChoices(world, players, scene) ==
    SeqsOver([i \in 1..Len(players) |-> PhysicsFor(world, players, scene, players[i])])

Clamp(x, lo, hi) == IF x < lo THEN lo ELSE IF x > hi THEN hi ELSE x

\* (flight_fuel - 3).clamp(0, MAX_FUEL) on a u32: below 3 the difference
\* wraps to a number just under 2^32 in a release build, which the clamp
\* brings down to MAX_FUEL (a debug build panics on the subtraction).
burn_fuel(fuel) ==
    IF fuel >= FUEL_COST THEN Clamp(fuel - FUEL_COST, 0, MAX_FUEL) ELSE MAX_FUEL

\* The fuel accounting of Player::update.
FuelAfterTick(p, vy_low) ==
    LET burnt == IF p.controller.fly /\ has_fuel(p) /\ vy_low
                 THEN burn_fuel(p.flight_fuel)
                 ELSE p.flight_fuel
    IN Clamp(burnt + 1, 0, MAX_FUEL)

\* Player::shoot_weapon: the tag of the node the ray hits decides.
shoot_weapon(conns, S, i, hit) ==
    LET S1 == [S EXCEPT !.players[i].shot_timer = SHOT_COOLDOWN_TICKS] IN
    CASE hit.kind = "block" /\ S.scene[hit.id] = "destructable"
            -> [S1 EXCEPT
                  !.out = @ \o send_to_all_reliably(conns,
                      PlayerEventMessage(hit.id,
                          [NoEvent EXCEPT !.type = "DestroyBlock", !.index = hit.id])),
                  !.events = Append(@, [NoEvent EXCEPT !.type = "DestroyBlock",
                                                       !.index = hit.id])]
      [] hit.kind = "block" -> [S1 EXCEPT !.scene[hit.id] = "destructable"]
      [] hit.kind = "player" /\ get_player_by_index(S.players, hit.id).tag = "player_1_hp"
            -> [S1 EXCEPT
                  !.events = Append(@, [NoEvent EXCEPT
                                           !.type = "KillPlayerFromIntersection",
                                           !.collider = hit.id])]
      [] hit.kind = "player"
            -> [S1 EXCEPT !.players[PlayerPos(S.players, hit.id)].tag = "player_1_hp"]
      [] OTHER -> S1

\* Player::update (server build)
update_player(conns, S, i, ph) ==
    LET p == S.players[i]
        timer == IF p.shot_timer > 0 THEN p.shot_timer - 1 ELSE 0
        jumps == p.controller.jump /\ ph.ground
        S1 == [S EXCEPT
                 !.players[i].shot_timer = timer,
                 !.players[i].flight_fuel = FuelAfterTick(p, ph.vy_low),
                 !.players[i].controller.jump = FALSE,
                 !.out = IF jumps
                         THEN @ \o send_to_all_reliably(conns,
                                      PlayerEventMessage(p.index,
                                          [NoEvent EXCEPT !.type = "Jump",
                                                          !.index = p.index]))
                         ELSE @]
        S2 == IF p.controller.shoot /\ can_shoot(S1.players[i])
              THEN shoot_weapon(conns, S1, i, ph.hit)
              ELSE S1
    IN IF ph.fell
       THEN [S2 EXCEPT !.events = Append(@, [NoEvent EXCEPT
                                               !.type = "KillPlayerFromIntersection",
                                               !.collider = p.index])]
       ELSE S2

\* SYNC_FREQUENCY as f32 * dt
SYNC_PERIOD == F32Mul(F32FromInt(SYNC_FREQUENCY), TIMESTEP)

\* The state sync of Level::update, on the ticks the sync period selects.
SyncState(conns, p, time) ==
    IF F32Rem(time, SYNC_PERIOD) < TIMESTEP
    THEN send_to_all_unreliably(conns,
             PlayerEventMessage(p.index,
                 [NoEvent EXCEPT !.type = "UpdateState", !.timestamp = time,
                                 !.index = p.index, !.position = p.position,
                                 !.shoot = p.controller.shoot,
                                 !.fuel = p.flight_fuel]), 0)
    ELSE <<>>

RECURSIVE UpdatePlayers(_, _, _, _, _)
UpdatePlayers(conns, S, i, phys, time) ==
    IF i > Len(S.players) THEN S
    ELSE UpdatePlayers(conns,
             update_player(conns,
                 [S EXCEPT !.out = @ \o SyncState(conns, S.players[i], time)],
                 i, phys[i]),
             i + 1, phys, time)

\* ------------------------------------------------------------- game update

Worker(ctx, pc, name, state) == [ctx |-> ctx, pc |-> pc, name |-> name, state |-> state]

\* A load that leaves a pending handoff slot in place.
KeepPendingLoad(G, e) ==
    [G EXCEPT !.contexts = Append(@, EmptySlot),
              !.load_context = IF @ = None THEN Len(G.contexts) + 1 ELSE @,
              !.workers = @ \cup {Worker(Len(G.contexts) + 1, "loading", e.level, e.state)}]

\* GameEvent::LoadLevel: a new handoff slot replaces the current one and a
\* worker thread is started for it.  G holds load_context, contexts, workers.
StartLoad(G, e) ==
    [G EXCEPT !.contexts = Append(@, EmptySlot),
              !.load_context = Len(G.contexts) + 1,
              !.workers = @ \cup {Worker(Len(G.contexts) + 1, "loading", e.level, e.state)}]

RECURSIVE DrainGameEvents(_, _)
DrainGameEvents(G, events) ==
    IF events = <<>> THEN G
    ELSE DrainGameEvents(IF Head(events).type = "LoadLevel"
                         THEN StartLoad(G, Head(events))
                         ELSE G,
                         Tail(events))

\* A lock that no slot's tick can take while any load is running.
BlockedByAnyWorker(G) == G.workers = {}

\* ctx.try_lock() fails while the worker of that slot holds the lock.
TryLock(G) == ~\E w \in G.workers : w.ctx = G.load_context /\ w.pc = "locked"

\* A poll that installs whatever the slot holds once it has the lock.
ReadyWhenUnlocked(G) ==
    /\ G.load_context # None
    /\ TryLock(G)

\* Whether the poll of Game::update finds a loaded level to install.
LoadReady(G) ==
    /\ G.load_context # None
    /\ TryLock(G)
    /\ G.contexts[G.load_context].some

RECURSIVE ApplyState(_, _)
ApplyState(S, blocks) ==
    IF blocks = <<>> THEN S ELSE ApplyState(destroy_block(S, Head(blocks)), Tail(blocks))

LevelRecord(S) ==
    [some |-> S.some, name |-> S.name, players |-> S.players, events |-> S.events,
     state |-> S.state, scene |-> S.scene]

Threaded(lvl, out, gev, pidx) ==
    [some |-> lvl.some, name |-> lvl.name, players |-> lvl.players,
     events |-> lvl.events, state |-> lvl.state, scene |-> lvl.scene,
     out |-> out, gev |-> gev, pidx |-> pidx]

\* The install step of Game::update: the old level is cleaned up, LoadLevel
\* is sent to every connection, the state is applied, the slot is emptied.
InstallLevel(conns, S, slot) ==
    LET fresh == NewLevel(slot.name)
        told == send_to_all_reliably(conns,
                    GameEventMessage(LoadLevelEvent(fresh.name, fresh.state)))
    IN ApplyState(Threaded(fresh, S.out \o told, S.gev, S.pidx), slot.state)

LoadLevelCount(events) ==
    Cardinality({i \in 1..Len(events) : events[i].type = "LoadLevel"})

\* ---------------------------------------------------------------- actions

Event(kind, address, payload) == [kind |-> kind, addr |-> address, pk |-> payload]

\* The queues are unbounded channels; an exploration lets the network thread
\* hand over a further event only while they hold at most this much.
Room(queued, outbound) ==
    /\ Len(net_sender) <= outbound
    /\ Len(level.events) <= queued
    /\ Len(game_events) <= queued

\* SocketEvent::Packet(packet), payload number k of `table`.
ReceivePacket(address, table, k) ==
    /\ LET r == RoutePacket(connections, level, address, table[k]) IN
        /\ level' = [level EXCEPT !.events = @ \o r.queued]
        /\ net_sender' = net_sender \o r.sent
        /\ game_events' = game_events \o r.game
    /\ last' = Event("Packet", address, table[k])
    /\ UNCHANGED <<connections, highest_player_index, player_index, load_context,
                   contexts, workers, elapsed_time, linked, departed,
                   build>>

\* SocketEvent::Connect(address); an exploration stops handing out indices
\* past `limit`.
ConnectWithin(address, limit) ==
    /\ address \notin linked
    /\ linked' = linked \cup {address}
    /\ IF level.some
       THEN LET index == NextPlayerIndex(connections, highest_player_index)
                conns == Append(connections, PlayerConnection(address, index))
                reset_level == Len(level.players) < RESET_PLAYERS
            IN /\ index <= limit
               /\ highest_player_index' = index
               /\ connections' = conns
               /\ IF reset_level
                  THEN /\ game_events' = game_events
                                \o <<LoadLevelEvent(level.name, <<>>), GameEvent("Connected")>>
                       /\ net_sender' = net_sender
                  ELSE /\ game_events' = Append(game_events, GameEvent("Connected"))
                       /\ net_sender' = net_sender
                                \o send_to_address_reliably(conns, address,
                                       GameEventMessage(LoadLevelEvent(level.name, level.state)))
       ELSE /\ game_events' = Append(game_events, GameEvent("Connected"))
            /\ UNCHANGED <<connections, highest_player_index, net_sender>>
    /\ last' = Event("Connect", address, <<>>)
    /\ UNCHANGED <<player_index, level, load_context, contexts, workers, elapsed_time,
                   departed,
                   build>>

Connect(address) == ConnectWithin(address, MaxIndex)

\* SocketEvent::Disconnect(address)
Disconnect(address) ==
    /\ address \in linked
    /\ linked' = linked \ {address}
    /\ LET index == get_index_for_address(connections, address) IN
        /\ IF level.some /\ index # None
           THEN /\ level' = [level EXCEPT !.players = remove_player(@, index)]
                /\ net_sender' = net_sender
                        \o send_to_all_except_address_reliably(connections, address,
                               PlayerEventMessage(index, KillPlayerEvent(index)))
           ELSE UNCHANGED <<level, net_sender>>
        /\ connections' = RetainOthers(connections, address)
        /\ departed' = IF index # None THEN departed \cup {index} ELSE departed
    /\ last' = Event("Disconnect", address, <<>>)
    /\ UNCHANGED <<highest_player_index, player_index, game_events, load_context,
                   contexts, workers, elapsed_time, build>>

\* SocketEvent::Timeout(address): logged only.
Timeout(address) ==
    /\ address \in linked
    /\ last' = Event("Timeout", address, <<>>)
    /\ UNCHANGED <<connections, highest_player_index, player_index, net_sender, level,
                   game_events, load_context, contexts, workers, elapsed_time, linked,
                   departed,
                   build>>

\* The socket thread takes the queued packets.
SocketPoll ==
    /\ net_sender # <<>>
    /\ net_sender' = <<>>
    /\ last' = Event("SocketPoll", 0, <<>>)
    /\ UNCHANGED <<connections, highest_player_index, player_index, level, game_events,
                   load_context, contexts, workers, elapsed_time, linked, departed,
                   build>>

\* A load worker finishes Level::new and takes the lock of its slot.
WorkerLock(w) ==
    /\ w \in workers
    /\ w.pc = "loading"
    /\ w.name = LEVEL_NAME
    /\ workers' = (workers \ {w}) \cup {[w EXCEPT !.pc = "locked"]}
    /\ last' = Event("WorkerLock", 0, <<>>)
    /\ UNCHANGED <<connections, highest_player_index, player_index, net_sender, level,
                   game_events, load_context, contexts, elapsed_time, linked, departed,
                   build>>

\* ... stores the level in the slot and releases the lock.
WorkerStore(w) ==
    /\ w \in workers
    /\ w.pc = "locked"
    /\ contexts' = [contexts EXCEPT ![w.ctx] = [some |-> TRUE, name |-> w.name,
                                                 state |-> w.state]]
    /\ workers' = workers \ {w}
    /\ last' = Event("WorkerStore", 0, <<>>)
    /\ UNCHANGED <<connections, highest_player_index, player_index, net_sender, level,
                   game_events, load_context, elapsed_time, linked, departed,
                   build>>

\* Both steps at once.  A tick that finds the lock taken does what a tick
\* that finds the slot empty does, so behaviours in which no tick falls
\* between the two steps show every outcome.
WorkerFinish(w) ==
    /\ w \in workers
    /\ w.pc = "loading"
    /\ w.name = LEVEL_NAME
    /\ contexts' = [contexts EXCEPT ![w.ctx] = [some |-> TRUE, name |-> w.name,
                                                 state |-> w.state]]
    /\ workers' = workers \ {w}
    /\ last' = Event("WorkerFinish", 0, <<>>)
    /\ UNCHANGED <<connections, highest_player_index, player_index, net_sender, level,
                   game_events, load_context, elapsed_time, linked, departed,
                   build>>

\* A worker that takes the lock of its slot before it builds the level and
\* panics with the lock in its hands.
FailsHoldingLock(w) ==
    /\ w \in workers
    /\ w.pc = "loading"
    /\ workers' = (workers \ {w}) \cup {[w EXCEPT !.pc = "locked", !.name = <<>>]}
    /\ last' = Event("WorkerFail", 0, <<>>)
    /\ UNCHANGED <<connections, highest_player_index, player_index, net_sender, level,
                   game_events, load_context, contexts, elapsed_time, linked, departed,
                   build>>

\* Level::new panics (the level resource is missing): the thread ends
\* without having touched the slot.
WorkerFail(w) ==
    /\ w \in workers
    /\ w.pc = "loading"
    /\ workers' = workers \ {w}
    /\ last' = Event("WorkerFail", 0, <<>>)
    /\ UNCHANGED <<connections, highest_player_index, player_index, net_sender, level,
                   game_events, load_context, contexts, elapsed_time, linked, departed,
                   build>>

\* The block indices of the DestroyBlock events in a queue, in queue order.
BlocksAsked(events) ==
    LET IsDestroy(e) == e.type = "DestroyBlock"
        asked == SelectSeq(events, IsDestroy)
    IN [n \in 1..Len(asked) |-> asked[n].index]

\* Game::update, one tick of the simulation thread; `time` is the
\* elapsed_time its caller passes.  The history keeps the blocks
\* the tick's drain is asked to destroy.
Tick(world, time) ==
    /\ Len(contexts) + LoadLevelCount(game_events) <= MaxLoads
    /\ LET G0 == [load_context |-> load_context, contexts |-> contexts, workers |-> workers]
           G1 == DrainGameEvents(G0, game_events)
           ready == LoadReady(G1)
           G2 == IF ready
                 THEN [G1 EXCEPT !.contexts[G1.load_context] = EmptySlot,
                                 !.load_context = None]
                 ELSE G1
           S0 == Threaded(level, net_sender, <<>>, player_index)
           S1 == IF ready
                 THEN InstallLevel(connections, S0, G1.contexts[G1.load_context])
                 ELSE S0
           S2 == IF S1.some THEN DrainEvents(connections, S1) ELSE S1
       IN \E phys \in PhysicsChoices(world, S2.players, S2.scene) :
            LET S3 == IF S2.some THEN UpdatePlayers(connections, S2, 1, phys, time) ELSE S2
            IN /\ level' = LevelRecord(S3)
               /\ net_sender' = S3.out
               /\ game_events' = S3.gev
               /\ player_index' = S3.pidx
               /\ load_context' = G2.load_context
               /\ contexts' = G2.contexts
               /\ workers' = G2.workers
               /\ last' = Event("Tick", 0, BlocksAsked(S1.events))
    /\ UNCHANGED <<connections, highest_player_index, linked, departed,
                   build>>

\* A time at which the state sync runs and one at which it does not.
SYNC_TIME == ClockAfter(SYNC_FREQUENCY)

QUIET_TIME == ClockAfter(SYNC_FREQUENCY + 2)

TickTimes == {SYNC_TIME, QUIET_TIME}

TickAnyTime(world) ==
    /\ \E time \in TickTimes : Tick(world, time)
    /\ UNCHANGED elapsed_time

\* The fixed-step loop: elapsed_time advances by one step before each update.
TickClock(world) ==
    /\ Tick(world, F32Add(elapsed_time, TIMESTEP))
    /\ elapsed_time' = F32Add(elapsed_time, TIMESTEP)

\* ------------------------------------------------------------------ inputs

Spoofed == MaxIndex + 3

ClientEvent(type, active) ==
    PlayerEventMessage(Spoofed, [NoEvent EXCEPT !.type = type, !.index = Spoofed,
                                                !.active = active, !.fuel = MAX_FUEL])

\* The payloads clients send in the behaviours explored.
JoinedPayload == serialize(GameEventMessage(GameEvent("Joined")))

JoinPayloads == <<JoinedPayload>>

ShootPayloads ==
    << JoinedPayload,
       serialize(ClientEvent("ShootWeapon", TRUE)),
       serialize(ClientEvent("ShootWeapon", FALSE)) >>

MovePayloads ==
    << JoinedPayload,
       serialize(ClientEvent("MoveForward", TRUE)),
       serialize(ClientEvent("MoveForward", FALSE)),
       serialize(ClientEvent("MoveBackward", TRUE)),
       serialize(ClientEvent("MoveLeft", TRUE)),
       serialize(ClientEvent("MoveRight", TRUE)),
       serialize(ClientEvent("LookAround", FALSE)) >>

FlyPayloads ==
    << JoinedPayload,
       serialize(ClientEvent("Fly", TRUE)),
       serialize(ClientEvent("Fly", FALSE)) >>

FirePayloads == <<JoinedPayload, serialize(ClientEvent("ShootWeapon", TRUE))>>

\* Payloads no NetworkMessage decodes from: an unknown variant tag, a
\* ShootWeapon cut short, a ShootWeapon whose bool is neither 0 nor 1, and
\* a LoadLevel whose block list runs past the decoder's limit.
BadTagPayload == <<Len(MessageTags)>>

TruncatedPayload == SubSeq(serialize(ClientEvent("ShootWeapon", TRUE)), 1, 5)

BadBoolPayload == [serialize(ClientEvent("ShootWeapon", TRUE)) EXCEPT ![5] = 2]

OversizePayload ==
    serialize(GameEventMessage(
        LoadLevelEvent(LEVEL_NAME, [n \in 1..(DECODE_LIMIT \div Width("u32")) |-> 1])))

DecodePayloads ==
    <<JoinedPayload, BadTagPayload, TruncatedPayload, BadBoolPayload, OversizePayload>>

\* Game::new on the server: no level yet, the first load is running.
Init ==
    /\ connections = <<>>
    /\ highest_player_index = 0
    /\ player_index = None
    /\ net_sender = <<>>
    /\ level = NoLevel
    /\ game_events = <<>>
    /\ load_context = 1
    /\ contexts = <<EmptySlot>>
    /\ workers = {Worker(1, "loading", LEVEL_NAME, <<>>)}
    /\ elapsed_time = 0
    /\ linked = {}
    /\ build = "server"
    /\ departed = {}
    /\ last = Event("Init", 0, <<>>)

\* Every address sends the first payload of `table`; the addresses in
\* `senders` send the others too.
NextFor(table, senders, world) ==
    \/ \E a \in Addr, k \in 1..Len(table) :
            /\ k = 1 \/ a \in senders
            /\ Room(MaxQueue, MaxOutbound)
            /\ ReceivePacket(a, table, k)
    \/ \E a \in Addr : Room(MaxQueue, MaxOutbound) /\ Connect(a)
    \/ \E a \in Addr : Room(MaxQueue, MaxOutbound) /\ Disconnect(a)
    \/ SocketPoll
    \/ \E w \in workers : WorkerFinish(w)
    \/ Len(net_sender) <= MaxOutbound /\ TickAnyTime(world)

Next == NextFor(JoinPayloads, Addr, "arena")

Spec == Init /\ [][Next]_vars

NextShoot == NextFor(ShootPayloads, {1}, "void")

SpecShoot == Init /\ [][NextShoot]_vars

NextShootArena == NextFor(ShootPayloads, {1}, "arena")

SpecShootArena == Init /\ [][NextShootArena]_vars

NextMove == NextFor(MovePayloads, {1}, "void")

SpecMove == Init /\ [][NextMove]_vars

\* Nobody leaves and one client plays: the session lasts long enough for
\* its player to run out of fuel.
NextFly ==
    \/ \E k \in 1..Len(FlyPayloads) :
            /\ Room(MaxQueue, MaxOutbound)
            /\ ReceivePacket(1, FlyPayloads, k)
    \/ \E a \in Addr : Room(MaxQueue, MaxOutbound) /\ Connect(a)
    \/ SocketPoll
    \/ \E w \in workers : WorkerFinish(w)
    \/ Len(net_sender) <= MaxOutbound /\ Tick("void", QUIET_TIME) /\ UNCHANGED elapsed_time

SpecFly == Init /\ [][NextFly]_vars

\* ------------------------------------------------------------- properties

Last(s) == s[Len(s)]

\* C1: no two connections of the registry hold the same player_index.
C1_UniqueIndices ==
    \A i, j \in 1..Len(connections) :
        i # j => connections[i].player_index # connections[j].player_index

\* Two connections are registered, the second by the last event.
C1_Witness ==
    /\ last.kind = "Connect"
    /\ Len(connections) = 2
    /\ Last(connections).socket_addr = last.addr

\* C2: a connection registered while another connection is live never gets
\* the index of a connection that has since disconnected.
C2_NoReuseWhileLive ==
    (last.kind = "Connect" /\ level.some /\ Len(connections) >= 2)
        => Last(connections).player_index \notin departed

\* A connection has been registered beside a live one after a disconnect.
C2_Witness ==
    /\ last.kind = "Connect"
    /\ level.some
    /\ Len(connections) >= 2
    /\ departed # {}

\* The message of the packet handled by the last step, and by this step.
Received == deserialize(last.pk).msg

ReceivedNow == deserialize(last'.pk).msg

\* The registry index of the address the packet came from.
SenderIndex == get_index_for_address(connections, last.addr)

SenderIndexNow == get_index_for_address(connections, last'.addr)

\* What this step appended to the outbound queue and to the level's queue.
NewPackets == SubSeq(net_sender', Len(net_sender) + 1, Len(net_sender'))

NewEvents == SubSeq(level'.events, Len(level.events) + 1, Len(level'.events))

OnlyAppends ==
    /\ Len(net_sender') >= Len(net_sender)
    /\ SubSeq(net_sender', 1, Len(net_sender)) = net_sender
    /\ Len(level'.events) >= Len(level.events)
    /\ SubSeq(level'.events, 1, Len(level.events)) = level.events

IsShoot(m, active) ==
    m.tag = "PlayerEvent" /\ m.event.type = "ShootWeapon" /\ m.event.active = active

SenderPlayerExists(i) == level.some /\ i # None /\ HasPlayer(level.players, i)

\* C3: a Shoot(active=true) packet from a sender whose player is still in
\* its weapon cooldown leaves the outbound queue and the level's event
\* queue as they were.
C3_CooldownShotDropped ==
    [][ ( /\ last'.kind = "Packet"
          /\ IsShoot(ReceivedNow, TRUE)
          /\ SenderPlayerExists(SenderIndexNow)
          /\ ~can_shoot(get_player_by_index(level.players, SenderIndexNow)) )
        => (net_sender' = net_sender /\ level'.events = level.events) ]_vars

\* A shot has just arrived during the sender's cooldown, with two
\* connections registered, and nothing was queued.
C3_Witness ==
    /\ last.kind = "Packet"
    /\ IsShoot(Received, TRUE)
    /\ SenderPlayerExists(SenderIndex)
    /\ ~can_shoot(get_player_by_index(level.players, SenderIndex))
    /\ Len(connections) = 2
    /\ net_sender = <<>>
    /\ level.events = <<>>

\* The packets a reliable relay of `event` under `envelope` to all of conns
\* consists of.
ReliableToAll(packets, conns, event) ==
    /\ Len(packets) = Len(conns)
    /\ \A n \in 1..Len(packets) :
          /\ packets[n].addr = conns[n].socket_addr
          /\ packets[n].delivery = "reliable_ordered"
          /\ deserialize(packets[n].payload).ok
          /\ deserialize(packets[n].payload).msg.tag = "PlayerEvent"
          /\ deserialize(packets[n].payload).msg.event = event

\* C4 (amended): a Shoot(active=false) packet from a registered address whose
\* player exists in the installed level is queued into the level's event
\* queue under the sender's registry index and relayed reliably to every
\* registered connection, whatever the cooldown.
C4_ReleaseAccepted ==
    [][ ( /\ last'.kind = "Packet"
          /\ IsShoot(ReceivedNow, FALSE)
          /\ SenderPlayerExists(SenderIndexNow) )
        => ( /\ OnlyAppends
             /\ NewEvents = <<[ReceivedNow.event EXCEPT !.index = SenderIndexNow]>>
             /\ ReliableToAll(NewPackets, connections,
                              [ReceivedNow.event EXCEPT !.index = SenderIndexNow]) ) ]_vars

\* A release has just been accepted during the sender's cooldown.
C4_Witness ==
    /\ last.kind = "Packet"
    /\ IsShoot(Received, FALSE)
    /\ SenderPlayerExists(SenderIndex)
    /\ ~can_shoot(get_player_by_index(level.players, SenderIndex))
    /\ Len(connections) = 2
    /\ Len(net_sender) = 2
    /\ Len(level.events) = 1

\* C4 as stated: every Shoot(active=false) packet from a registered address
\* is queued and relayed, whether or not a player exists for the sender.
C4_EveryReleaseAccepted ==
    [][ ( /\ last'.kind = "Packet"
          /\ IsShoot(ReceivedNow, FALSE)
          /\ SenderIndexNow # None )
        => (NewEvents # <<>> /\ NewPackets # <<>>) ]_vars

ClientStamped ==
    {"ShootWeapon", "MoveForward", "MoveBackward", "MoveLeft", "MoveRight",
     "LookAround", "Fly"}

\* C5: in every Shoot, Move*, LookAround or Fly message relayed or queued
\* for a client, the envelope's index and the inner event's index both
\* equal the registry index of the packet's source address.
C5_IndicesFromRegistry ==
    [][ ( /\ last'.kind = "Packet"
          /\ ReceivedNow.tag = "PlayerEvent"
          /\ ReceivedNow.event.type \in ClientStamped )
        => ( /\ \A n \in 1..Len(NewEvents) : NewEvents[n].index = SenderIndexNow
             /\ \A n \in 1..Len(NewPackets) :
                   LET m == deserialize(NewPackets[n].payload).msg IN
                   m.index = SenderIndexNow /\ m.event.index = SenderIndexNow ) ]_vars

\* A client's shot has been relayed to two connections.
C5_Witness ==
    /\ last.kind = "Packet"
    /\ Received.tag = "PlayerEvent"
    /\ Received.event.type \in ClientStamped
    /\ Len(net_sender) = 2

NextDecode == NextFor(DecodePayloads, Addr, "void")

SpecDecode == Init /\ [][NextDecode]_vars

IsMovement(m) ==
    /\ m.tag = "PlayerEvent"
    /\ m.event.type \in {"MoveForward", "MoveBackward", "MoveLeft", "MoveRight", "LookAround"}

Addresses(conns) == {conns[n].socket_addr : n \in 1..Len(conns)}

\* C6: a movement or look event from registered connection A is sent exactly
\* once, unreliably-sequenced, to every registered connection other than A
\* and is not sent to A.
C6_RelayedToOthersOnly ==
    [][ ( /\ last'.kind = "Packet"
          /\ IsMovement(ReceivedNow)
          /\ level.some
          /\ SenderIndexNow # None )
        => ( /\ OnlyAppends
             /\ \A a \in Addresses(connections) :
                   Cardinality({n \in 1..Len(NewPackets) : NewPackets[n].addr = a})
                       = IF a = last'.addr THEN 0 ELSE 1
             /\ \A n \in 1..Len(NewPackets) :
                   /\ NewPackets[n].addr \in Addresses(connections)
                   /\ NewPackets[n].delivery = "unreliable_sequenced"
                   /\ deserialize(NewPackets[n].payload).msg.event
                        = [ReceivedNow.event EXCEPT !.index = SenderIndexNow] ) ]_vars

\* A movement event of one of two registered connections has just been
\* relayed: one packet, for the other connection.
C6_Witness ==
    /\ last.kind = "Packet"
    /\ IsMovement(Received)
    /\ SenderIndex # None
    /\ Len(connections) = 2
    /\ Len(net_sender) = 1
    /\ net_sender[1].addr # last.addr
    /\ Len(level.events) = 1

IsFly(m) == m.tag = "PlayerEvent" /\ m.event.type = "Fly"

\* C7: a Fly packet is queued and relayed only if it is inactive or the
\* sender's player has flight_fuel >= 3; the fuel of every queued or relayed
\* Fly event is the player's flight_fuel on the server; a rejected Fly
\* leaves the outbound queue and the level's event queue as they were.
C7_FlyValidated ==
    [][ (last'.kind = "Packet" /\ IsFly(ReceivedNow))
        => /\ OnlyAppends
           /\ (NewEvents # <<>> \/ NewPackets # <<>>)
                => /\ SenderPlayerExists(SenderIndexNow)
                   /\ \/ ~ReceivedNow.event.active
                      \/ get_player_by_index(level.players, SenderIndexNow).flight_fuel
                            >= FUEL_COST
                   /\ \A n \in 1..Len(NewEvents) :
                         NewEvents[n].fuel
                            = get_player_by_index(level.players, SenderIndexNow).flight_fuel
                   /\ \A n \in 1..Len(NewPackets) :
                         deserialize(NewPackets[n].payload).msg.event.fuel
                            = get_player_by_index(level.players, SenderIndexNow).flight_fuel
           /\ ( /\ ReceivedNow.event.active
                /\ SenderPlayerExists(SenderIndexNow)
                /\ get_player_by_index(level.players, SenderIndexNow).flight_fuel
                      < FUEL_COST )
                => (net_sender' = net_sender /\ level'.events = level.events) ]_vars

\* A Fly(active=true) of a player that has burnt its fuel has just been
\* turned down.
C7_Witness ==
    /\ last.kind = "Packet"
    /\ IsFly(Received)
    /\ Received.event.active
    /\ SenderPlayerExists(SenderIndex)
    /\ get_player_by_index(level.players, SenderIndex).flight_fuel < FUEL_COST
    /\ Len(connections) = 2
    /\ net_sender = <<>>
    /\ level.events = <<>>

IsKill(packet, index) ==
    /\ packet.delivery = "reliable_ordered"
    /\ deserialize(packet.payload).ok
    /\ deserialize(packet.payload).msg.tag = "PlayerEvent"
    /\ deserialize(packet.payload).msg.event.type = "KillPlayer"
    /\ deserialize(packet.payload).msg.event.index = index

\* C8: Disconnect(a) of a registered address a with index i removes a from
\* the registry and leaves every other address/index pair as it was,
\* removes player i from the level, and sends KillPlayer{i} reliably to
\* every remaining connection and not to a.
C8_DisconnectCleansUp ==
    [][ (last'.kind = "Disconnect" /\ SenderIndexNow # None)
        => LET Others(c) == c.socket_addr # last'.addr
               rest == SelectSeq(connections, Others)
           IN /\ get_index_for_address(connections', last'.addr) = None
              /\ connections' = rest
              /\ ~HasPlayer(level'.players, SenderIndexNow)
              /\ Len(net_sender') >= Len(net_sender)
              /\ SubSeq(net_sender', 1, Len(net_sender)) = net_sender
              /\ Len(NewPackets) = Len(rest)
              /\ \A n \in 1..Len(rest) :
                    /\ NewPackets[n].addr = rest[n].socket_addr
                    /\ NewPackets[n].addr # last'.addr
                    /\ IsKill(NewPackets[n], SenderIndexNow) ]_vars

\* One of two registered connections has just disconnected: the other one
\* is told that the player died, and its own player is still in the level.
C8_Witness ==
    /\ last.kind = "Disconnect"
    /\ Len(connections) = 1
    /\ Len(net_sender) = 1
    /\ net_sender[1].addr = connections[1].socket_addr
    /\ \E i \in departed : IsKill(net_sender[1], i) /\ ~HasPlayer(level.players, i)
    /\ HasPlayer(level.players, connections[1].player_index)

\* C9: a packet whose payload does not decode as a NetworkMessage changes
\* neither the registry, the level (its event queue included), the game
\* event queue nor the outbound queue.
C9_UndecodableDropped ==
    [][ (last'.kind = "Packet" /\ ~deserialize(last'.pk).ok)
        => UNCHANGED <<connections, highest_player_index, level, game_events,
                       net_sender>> ]_vars

\* A registered connection with a player has just sent a payload past the
\* decoder's limit and is still registered.
C9_Witness ==
    /\ last.kind = "Packet"
    /\ last.pk = OversizePayload
    /\ ~deserialize(last.pk).ok
    /\ SenderPlayerExists(SenderIndex)
    /\ Len(connections) = 2

IsSpawn(packet, address, index, current) ==
    /\ packet.addr = address
    /\ packet.delivery = "reliable_ordered"
    /\ deserialize(packet.payload).ok
    /\ deserialize(packet.payload).msg.tag = "PlayerEvent"
    /\ deserialize(packet.payload).msg.event.type = "SpawnPlayer"
    /\ deserialize(packet.payload).msg.event.index = index
    /\ deserialize(packet.payload).msg.event.current_player = current

IsJoined(m) == m.tag = "GameEvent" /\ m.event.type = "Joined"

\* C10: Joined from a registered address a with index i, a level being
\* installed, emits in this order a reliable SpawnPlayer{p, false} to a for
\* each player p of the level, a reliable SpawnPlayer{i, false} to every
\* other registered connection and a reliable SpawnPlayer{i, true} to a,
\* and queues SpawnPlayer{i, false} into the level's queue once.
C10_JoinedSequence ==
    [][ ( /\ last'.kind = "Packet"
          /\ IsJoined(ReceivedNow)
          /\ level.some
          /\ SenderIndexNow # None )
        => LET Others(c) == c.socket_addr # last'.addr
               rest == SelectSeq(connections, Others)
               n1 == Len(level.players)
               n2 == Len(rest)
           IN /\ OnlyAppends
              /\ Len(NewPackets) = n1 + n2 + 1
              /\ \A n \in 1..n1 :
                    IsSpawn(NewPackets[n], last'.addr, level.players[n].index, FALSE)
              /\ \A n \in 1..n2 :
                    IsSpawn(NewPackets[n1 + n], rest[n].socket_addr, SenderIndexNow, FALSE)
              /\ IsSpawn(NewPackets[n1 + n2 + 1], last'.addr, SenderIndexNow, TRUE)
              /\ Len(NewEvents) = 1
              /\ NewEvents[1].type = "SpawnPlayer"
              /\ NewEvents[1].index = SenderIndexNow
              /\ ~NewEvents[1].current_player ]_vars

\* The second of two registered connections has just joined a level that
\* holds the first one's player.
C10_Witness ==
    /\ last.kind = "Packet"
    /\ IsJoined(Received)
    /\ SenderIndex # None
    /\ Len(connections) = 2
    /\ Len(level.players) = 1
    /\ level.players[1].index # SenderIndex
    /\ Len(net_sender) = 3
    /\ Len(level.events) = 1

\* An address beyond those that play: it connects to a session in progress.
LATE_ADDR == NumAddr + 1

LatePayloads == << JoinedPayload, serialize(ClientEvent("ShootWeapon", TRUE)) >>

\* A session that nobody leaves, in which the first client pulls the
\* trigger and a further address connects.
NextLate ==
    \/ \E a \in Addr, k \in 1..Len(LatePayloads) :
            /\ k = 1 \/ a = 1
            /\ Room(MaxQueue, MaxOutbound)
            /\ ReceivePacket(a, LatePayloads, k)
    \/ \E a \in Addr \cup {LATE_ADDR} : Room(MaxQueue, MaxOutbound) /\ Connect(a)
    \/ SocketPoll
    \/ \E w \in workers : WorkerFinish(w)
    \/ Len(net_sender) <= MaxOutbound /\ Tick("arena", QUIET_TIME) /\ UNCHANGED elapsed_time

SpecLate == Init /\ [][NextLate]_vars

NewGameEvents == SubSeq(game_events', Len(game_events) + 1, Len(game_events'))

IsLoadLevel(packet, address, state) ==
    /\ packet.addr = address
    /\ packet.delivery = "reliable_ordered"
    /\ deserialize(packet.payload).ok
    /\ deserialize(packet.payload).msg.tag = "GameEvent"
    /\ deserialize(packet.payload).msg.event.type = "LoadLevel"
    /\ deserialize(packet.payload).msg.event.state = state

\* C11: a Connect with a level installed queues a LoadLevel with no
\* destroyed blocks on the game's own event queue and sends nothing when the
\* level has fewer than 2 players; otherwise it starts no reload and sends
\* a LoadLevel with the level's destroyed blocks reliably to the joining
\* address only.
C11_ConnectResetOrSnapshot ==
    [][ (last'.kind = "Connect" /\ level.some)
        => /\ Len(game_events') >= Len(game_events)
           /\ SubSeq(game_events', 1, Len(game_events)) = game_events
           /\ Len(net_sender') >= Len(net_sender)
           /\ SubSeq(net_sender', 1, Len(net_sender)) = net_sender
           /\ IF Len(level.players) < 2
              THEN /\ NewPackets = <<>>
                   /\ Cardinality({n \in 1..Len(NewGameEvents) :
                                      NewGameEvents[n].type = "LoadLevel"}) = 1
                   /\ \A n \in 1..Len(NewGameEvents) :
                         NewGameEvents[n].type = "LoadLevel"
                            => NewGameEvents[n].state = <<>>
              ELSE /\ \A n \in 1..Len(NewGameEvents) : NewGameEvents[n].type # "LoadLevel"
                   /\ Len(NewPackets) = 1
                   /\ IsLoadLevel(NewPackets[1], last'.addr, level.state) ]_vars

\* An address has just connected to a level of two players with a destroyed
\* block, and the snapshot with that block is on its way to it alone.
C11_Witness ==
    /\ last.kind = "Connect"
    /\ Len(level.players) = 2
    /\ level.state # <<>>
    /\ Len(connections) = 3
    /\ Len(net_sender) = 1
    /\ IsLoadLevel(net_sender[1], last.addr, level.state)

\* A session that nobody leaves, in which both clients shoot.
NextBlocks ==
    \/ \E a \in Addr, k \in 1..Len(FirePayloads) :
            /\ Room(MaxQueue, MaxOutbound)
            /\ ReceivePacket(a, FirePayloads, k)
    \/ \E a \in Addr : Room(MaxQueue, MaxOutbound) /\ Connect(a)
    \/ SocketPoll
    \/ \E w \in workers : WorkerFinish(w)
    \/ Len(net_sender) <= MaxOutbound
            /\ Tick("gallery", QUIET_TIME) /\ UNCHANGED elapsed_time

SpecBlocks == Init /\ [][NextBlocks]_vars

Occurrences(s, x) == Cardinality({n \in 1..Len(s) : s[n] = x})

TwiceInARow(s, x) == \E n \in 1..(Len(s) - 1) : s[n] = x /\ s[n + 1] = x

\* C12: a drain that applies DestroyBlock(i) twice in a row leaves the
\* level as one application does: i is in destroyed_blocks once, the block
\* is gone from the scene, and nothing else was added.
C12_DestroyTwiceIsOnce ==
    [][ \A i \in Blocks :
          (last'.kind = "Tick" /\ TwiceInARow(last'.pk, i))
          => /\ Occurrences(level'.state, i) = 1
             /\ level'.scene[i] = "removed"
             /\ Len(level'.state)
                  = Len(level.state)
                    + Cardinality({b \in Blocks :
                          /\ Occurrences(last'.pk, b) > 0
                          /\ Occurrences(level.state, b) = 0}) ]_vars

\* A tick has just drained two DestroyBlock events for one block.
C12_Witness ==
    /\ last.kind = "Tick"
    /\ \E i \in Blocks :
          /\ TwiceInARow(last.pk, i)
          /\ Occurrences(level.state, i) = 1
          /\ level.scene[i] = "removed"

\* The fixed-step loop runs for MaxTicks ticks while clients connect and join.
NextSync ==
    \/ \E a \in Addr : Room(MaxQueue, MaxOutbound) /\ ReceivePacket(a, JoinPayloads, 1)
    \/ \E a \in Addr : Room(MaxQueue, MaxOutbound) /\ Connect(a)
    \/ SocketPoll
    \/ \E w \in workers : WorkerFinish(w)
    \/ /\ Len(net_sender) <= MaxOutbound
       /\ elapsed_time < ClockAfter(MaxTicks)
       /\ TickClock("void")

SpecSync == Init /\ [][NextSync]_vars

\* The number of the tick whose update was passed `time`.
TickNumber(time) == CHOOSE n \in 0..(MaxTicks + 1) : ClockAfter(n) = time

IsUpdateState(packet, address, index, time) ==
    /\ packet.addr = address
    /\ packet.delivery = "unreliable_sequenced"
    /\ deserialize(packet.payload).ok
    /\ deserialize(packet.payload).msg.tag = "PlayerEvent"
    /\ deserialize(packet.payload).msg.event.type = "UpdateState"
    /\ deserialize(packet.payload).msg.event.index = index
    /\ deserialize(packet.payload).msg.event.timestamp = time

\* The UpdateState packets among those this step sent.
StatesSent ==
    {i \in 1..Len(NewPackets) :
        /\ deserialize(NewPackets[i].payload).ok
        /\ deserialize(NewPackets[i].payload).msg.tag = "PlayerEvent"
        /\ deserialize(NewPackets[i].payload).msg.event.type = "UpdateState"}

\* C17: a server tick whose number is a multiple of SYNC_FREQUENCY sends,
\* to every registered connection and for every live player, exactly one
\* unreliable-sequenced UpdateState stamped with the tick's elapsed time;
\* a tick whose number is not a multiple sends no UpdateState.
C17_SyncOnMultiples ==
    [][ last'.kind = "Tick" =>
          IF TickNumber(elapsed_time') % SYNC_FREQUENCY = 0
          THEN \A c \in 1..Len(connections), p \in 1..Len(level'.players) :
                  Cardinality({i \in StatesSent :
                      IsUpdateState(NewPackets[i], connections[c].socket_addr,
                                    level'.players[p].index, elapsed_time')}) = 1
          ELSE StatesSent = {} ]_vars

\* A tick has just run with a player in the level and a connection in the
\* registry.
C17_Witness ==
    /\ last.kind = "Tick"
    /\ level.some
    /\ level.players # <<>>
    /\ connections # <<>>
    /\ elapsed_time >= ClockAfter(SYNC_FREQUENCY)

\* Connections come and go, so that loads are requested while earlier ones
\* run; a worker takes the lock and stores its level in separate steps.
NextLoads ==
    \/ \E a \in Addr : Room(MaxQueue, MaxOutbound) /\ Connect(a)
    \/ \E a \in Addr : Room(MaxQueue, MaxOutbound) /\ Disconnect(a)
    \/ SocketPoll
    \/ \E w \in workers : WorkerLock(w)
    \/ \E w \in workers : WorkerStore(w)
    \/ \E w \in workers : WorkerFail(w)
    \/ Len(net_sender) <= MaxOutbound /\ Tick("void", QUIET_TIME) /\ UNCHANGED elapsed_time

SpecLoads == Init /\ [][NextLoads]_vars

\* The handoff slots whose level this step took out.
SlotsTaken == {c \in 1..Len(contexts) : contexts[c].some /\ ~contexts'[c].some}

\* C18: the only slot a step ever takes a level out of is the slot of the
\* most recently requested load, and it is a tick that takes it; the
\* result of a load that was superseded while in flight stays where it is.
C18_OnlyLatestLoadInstalled ==
    [][ \A c \in SlotsTaken :
            /\ last'.kind = "Tick"
            /\ c = Len(contexts')
            /\ level'.some
            /\ load_context' = None ]_vars

\* The latest load has just been installed while the result of a
\* superseded load sits in its orphaned slot.
C18_Witness ==
    /\ last.kind = "Tick"
    /\ level.some
    /\ load_context = None
    /\ Len(contexts) >= 2
    /\ ~contexts[Len(contexts)].some
    /\ \E c \in 1..(Len(contexts) - 1) : contexts[c].some

\* ----------------------------------------------------------- client build
\* The same structs compiled without the "server" feature.  The registry
\* stays empty (SocketEvent::Connect registers nobody), net_sender holds the
\* packets for the server, and each player's controller keeps the states
\* the reconciliation works on.  (The server records previous_states too,
\* but nothing in its build reads them.)

\* f32::EPSILON = 2^-23
F32_EPSILON == 872415232

\* const MOVEMENT_SPEED: f32 = 1.5
MOVEMENT_SPEED == 1069547520

\* let target_catchup_time: f32 = 0.15
TARGET_CATCHUP_TIME == 1041865114

\* let buffer_length = 3 (previous_states)
PREVIOUS_STATES == 3

PlayerState(timestamp, position, shoot, fuel) ==
    [timestamp |-> timestamp, position |-> position, velocity |-> Zero3,
     shoot |-> shoot, fuel |-> fuel]

\* Player::new with the controller's reconciliation fields.
ClientPlayer(index, position, shoot, current_player) ==
    [NewPlayer(index, position, shoot, current_player) EXCEPT
        !.controller = @ @@ [new_states |-> <<>>, previous_states |-> <<>>,
                             smoothing_speed |-> 0]]

\* Vector3::magnitude: sqrt(x*x + y*y + z*z)
Magnitude(v) ==
    F32Sqrt(F32Add(F32Add(F32Mul(v[1], v[1]), F32Mul(v[2], v[2])), F32Mul(v[3], v[3])))

\* Vector3 subtraction
Difference(a, b) == [k \in 1..3 |-> F32Sub(a[k], b[k])]

\* f32::max, f32::min
F32Max(a, b) == IF a >= b THEN a ELSE b

F32Min(a, b) == IF a <= b THEN a ELSE b

\* The end of the position sync: body and previous states are offset by
\* pos_diff, and the snapshot is dropped if the step was the whole error.
offset_states(p, pos_diff, smoothing_speed, arrived) ==
    LET Moved(position) == [k \in 1..3 |-> F32Add(position[k], pos_diff[k])] IN
    [p EXCEPT
        !.position = Moved(@),
        !.controller.previous_states =
            [n \in 1..Len(@) |-> [@[n] EXCEPT !.position = Moved(@)]],
        !.controller.smoothing_speed = IF arrived THEN 0 ELSE smoothing_speed,
        !.controller.new_states = IF arrived THEN Tail(@) ELSE @]

\* pos_diff *= move_dist / pos_diff_mag, and the test that ends the sync.
scale_step(p, pos_diff, pos_diff_mag, smoothing_speed, move_dist) ==
    offset_states(p,
        [k \in 1..3 |-> F32Mul(pos_diff[k], F32Div(move_dist, pos_diff_mag))],
        smoothing_speed,
        Abs(F32Sub(move_dist, pos_diff_mag)) < F32_EPSILON)

\* max_move and move_dist
bound_step(p, dt, pos_diff, pos_diff_mag, smoothing_speed) ==
    scale_step(p, pos_diff, pos_diff_mag, smoothing_speed,
               F32Min(pos_diff_mag, F32Mul(dt, smoothing_speed)))

\* "Sync position": the branch on the size of the error and the smoothing
\* speed, which only grows while a snapshot is pending.
\* A correction whose speed follows the error alone.
SyncWithoutMemory(p, dt, pos_diff, pos_diff_mag) ==
    IF pos_diff_mag > F32_EPSILON
    THEN bound_step(p, dt, pos_diff, pos_diff_mag,
            F32Max(F32Div(MOVEMENT_SPEED, F32FromInt(6)),
                   F32Div(pos_diff_mag, TARGET_CATCHUP_TIME)))
    ELSE [p EXCEPT !.controller.smoothing_speed = 0, !.controller.new_states = Tail(@)]

sync_position(p, dt, pos_diff, pos_diff_mag) ==
    IF pos_diff_mag > F32_EPSILON
    THEN bound_step(p, dt, pos_diff, pos_diff_mag,
            F32Max(p.controller.smoothing_speed,
                   F32Max(F32Div(MOVEMENT_SPEED, F32FromInt(6)),
                          F32Div(pos_diff_mag, TARGET_CATCHUP_TIME))))
    ELSE [p EXCEPT !.controller.smoothing_speed = 0,
                   !.controller.new_states = Tail(@)]

position_error(p, dt, pos_diff) == sync_position(p, dt, pos_diff, Magnitude(pos_diff))

\* Player::interpolate_state: the player after one reconciliation step.
interpolate_state(p, dt) ==
    IF p.controller.new_states = <<>> \/ p.controller.previous_states = <<>> THEN p
    ELSE position_error(p, dt,
            Difference(Head(p.controller.new_states).position,
                       Head(p.controller.previous_states).position))

\* One arm of the match in Level::update, client build.
\* A buffer that keeps the pending snapshot beside the new one.
KeepPending(c, new_state) == [c EXCEPT !.new_states = Append(@, new_state)]

\* The new_states buffer of the UpdateState arm (buffer_length = 1): a
\* pending snapshot makes room for the new one and the smoothing restarts.
push_new_state(c, new_state) ==
    IF Len(c.new_states) >= 1
    THEN [c EXCEPT !.new_states = Append(Tail(@), new_state), !.smoothing_speed = 0]
    ELSE [c EXCEPT !.new_states = Append(@, new_state)]

ClientApplyEvent(S, e) ==
    LET i == PlayerPos(S.players, e.index) IN
    CASE e.type = "Fly" /\ HasPlayer(S.players, e.index)
            -> [S EXCEPT !.players[i].controller.fly = e.active,
                         !.players[i].flight_fuel = e.fuel]
      [] e.type = "UpdateState" /\ HasPlayer(S.players, e.index)
            -> [S EXCEPT !.players[i].controller =
                    push_new_state(@, PlayerState(e.timestamp, e.position, e.shoot, e.fuel))]
      [] e.type = "DestroyBlock"
            -> IF ValidBlock(S.scene, e.index)
               THEN [S EXCEPT !.scene[e.index] = "removed"]
               ELSE S
      [] e.type = "SpawnPlayer"
            -> IF HasPlayer(S.players, e.index) THEN S
               ELSE [S EXCEPT
                       !.pidx = IF e.current_player THEN e.index ELSE @,
                       !.players = Append(@, ClientPlayer(e.index, e.position, e.shoot,
                                                          e.current_player))]
      [] e.type \in {"Fly", "UpdateState", "KillPlayerFromIntersection"} -> S
      [] OTHER -> ApplyEvent(<<>>, S, e)

RECURSIVE ClientDrainEvents(_)
ClientDrainEvents(S) ==
    IF S.events = <<>> THEN S
    ELSE ClientDrainEvents(ClientApplyEvent([S EXCEPT !.events = Tail(@)], Head(S.events)))

\* A recording that makes room by dropping the newest entry.
DropNewest(states, state) ==
    Append(IF Len(states) >= PREVIOUS_STATES
           THEN SubSeq(states, 1, Len(states) - 1)
           ELSE states,
           state)

\* The recording of a previous state: `if length >= buffer_length
\* { previous_states.remove(0) }`, then the push.
push_previous_state(states, state) ==
    Append(IF Len(states) >= PREVIOUS_STATES THEN Tail(states) ELSE states, state)

\* The body of the loop over the players in Level::update, client build:
\* the state the body is in is recorded, then Player::update runs.  The
\* body has moved by `drift` along z since the last tick.
client_update_player(S, i, ph, drift) ==
    LET p == S.players[i]
        position == [p.position EXCEPT ![3] = F32Add(@, drift)]
        previous_state == PlayerState(0, position, p.controller.shoot, p.flight_fuel)
        recorded == [p EXCEPT !.position = position,
                              !.controller.previous_states =
                                    push_previous_state(@, previous_state)]
        timer == IF p.shot_timer > 0 THEN p.shot_timer - 1 ELSE 0
        moved == interpolate_state(recorded, TIMESTEP)
    IN [S EXCEPT !.players[i] =
            [moved EXCEPT
                !.shot_timer = IF p.controller.shoot /\ timer <= 0
                               THEN SHOT_COOLDOWN_TICKS ELSE timer,
                !.flight_fuel = FuelAfterTick(p, ph.vy_low),
                !.controller.jump = FALSE]]

RECURSIVE ClientUpdatePlayers(_, _, _, _)
ClientUpdatePlayers(S, i, phys, drifts) ==
    IF i > Len(S.players) THEN S
    ELSE ClientUpdatePlayers(client_update_player(S, i, phys[i], drifts[i]),
                             i + 1, phys, drifts)

\* NetworkManager::send_to_server_reliably
send_to_server_reliably(message) ==
    <<Packet(SERVER_ADDR, "reliable_ordered", get_address_stream_id(<<>>, SERVER_ADDR),
             serialize(message))>>

\* A client that queues the server's snapshots and block removals only.
RouteStateAndBlocksOnly(lvl, payload) ==
    LET decoded == deserialize(payload) IN
    IF ~decoded.ok THEN Dropped
    ELSE CASE decoded.msg.tag = "PlayerEvent"
                -> IF lvl.some /\ decoded.msg.event.type \in {"UpdateState", "DestroyBlock"}
                   THEN Routed(<<decoded.msg.event>>, <<>>, <<>>)
                   ELSE Dropped
           [] decoded.msg.tag = "GameEvent" -> Routed(<<>>, <<>>, <<decoded.msg.event>>)
           [] OTHER -> Dropped

\* SocketEvent::Packet, client build.
ClientRoutePacket(lvl, payload) ==
    LET decoded == deserialize(payload) IN
    IF ~decoded.ok THEN Dropped
    ELSE CASE decoded.msg.tag = "PlayerEvent"
                -> IF lvl.some /\ decoded.msg.event.type \in
                        {"ShootWeapon", "DestroyBlock", "UpdateState", "LookAround",
                         "MoveBackward", "MoveForward", "MoveLeft", "MoveRight", "Jump",
                         "Fly", "KillPlayer", "SpawnPlayer"}
                   THEN Routed(<<decoded.msg.event>>, <<>>, <<>>)
                   ELSE Dropped
           [] decoded.msg.tag = "GameEvent" -> Routed(<<>>, <<>>, <<decoded.msg.event>>)
           [] OTHER -> Dropped

\* An install that hands the old level's players to the new level.
InstallOverOld(S, slot) ==
    LET fresh == NewLevel(slot.name)
        told == send_to_server_reliably(GameEventMessage(GameEvent("Joined")))
        asked == [n \in 1..Len(slot.state) |->
                     [NoEvent EXCEPT !.type = "DestroyBlock", !.index = slot.state[n]]]
    IN ClientDrainEvents(
           Threaded([fresh EXCEPT !.events = asked, !.players = S.players],
                    S.out \o told, S.gev, S.pidx))

\* An install that tells the server nothing.
InstallUnannounced(S, slot) ==
    LET fresh == NewLevel(slot.name)
        asked == [n \in 1..Len(slot.state) |->
                     [NoEvent EXCEPT !.type = "DestroyBlock", !.index = slot.state[n]]]
    IN ClientDrainEvents(Threaded([fresh EXCEPT !.events = asked], S.out, S.gev, S.pidx))

\* The install step of Game::update, client build: Joined is sent to the
\* server and the state is applied (the client keeps no destroyed_blocks).
ClientInstallLevel(S, slot) ==
    LET fresh == NewLevel(slot.name)
        told == send_to_server_reliably(GameEventMessage(GameEvent("Joined")))
        asked == [n \in 1..Len(slot.state) |->
                     [NoEvent EXCEPT !.type = "DestroyBlock", !.index = slot.state[n]]]
    IN ClientDrainEvents(
           Threaded([fresh EXCEPT !.events = asked], S.out \o told, S.gev, S.pidx))

\* A packet from the server, payload number k of `table`.
ClientReceivePacket(table, k) ==
    /\ LET r == ClientRoutePacket(level, table[k]) IN
        /\ level' = [level EXCEPT !.events = @ \o r.queued]
        /\ net_sender' = net_sender \o r.sent
        /\ game_events' = game_events \o r.game
    /\ last' = Event("Packet", SERVER_ADDR, table[k])
    /\ UNCHANGED <<connections, highest_player_index, player_index, load_context,
                   contexts, workers, elapsed_time, linked, departed,
                   build>>

\* SocketEvent::Connect(address), client build.
ClientConnect ==
    /\ SERVER_ADDR \notin linked
    /\ linked' = linked \cup {SERVER_ADDR}
    /\ game_events' = Append(game_events, GameEvent("Connected"))
    /\ last' = Event("Connect", SERVER_ADDR, <<>>)
    /\ UNCHANGED <<connections, highest_player_index, player_index, net_sender, level,
                   load_context, contexts, workers, elapsed_time, departed,
                   build>>

\* SocketEvent::Disconnect(address), client build.
ClientDisconnect ==
    /\ SERVER_ADDR \in linked
    /\ linked' = linked \ {SERVER_ADDR}
    /\ game_events' = Append(game_events, GameEvent("Disconnected"))
    /\ last' = Event("Disconnect", SERVER_ADDR, <<>>)
    /\ UNCHANGED <<connections, highest_player_index, player_index, net_sender, level,
                   load_context, contexts, workers, elapsed_time, departed,
                   build>>

\* How far the engine may have moved a body since the last tick: a body
\* with a movement flag set by one step at MOVEMENT_SPEED, or not at all.
Drifts(p) ==
    IF \/ p.controller.move_forward \/ p.controller.move_backward
       \/ p.controller.move_left \/ p.controller.move_right
    THEN {0, F32Mul(MOVEMENT_SPEED, TIMESTEP)}
    ELSE {0}

\* Game::update, client build (which makes no use of the elapsed_time it
\* is passed).
ClientTick ==
    /\ Len(contexts) + LoadLevelCount(game_events) <= MaxLoads
    /\ LET G0 == [load_context |-> load_context, contexts |-> contexts, workers |-> workers]
           G1 == DrainGameEvents(G0, game_events)
           ready == LoadReady(G1)
           G2 == IF ready
                 THEN [G1 EXCEPT !.contexts[G1.load_context] = EmptySlot,
                                 !.load_context = None]
                 ELSE G1
           S0 == Threaded(level, net_sender, <<>>, player_index)
           S1 == IF ready
                 THEN ClientInstallLevel(S0, G1.contexts[G1.load_context])
                 ELSE S0
           S2 == IF S1.some THEN ClientDrainEvents(S1) ELSE S1
       IN \E phys \in PhysicsChoices("void", S2.players, S2.scene),
             drifts \in SeqsOver([i \in 1..Len(S2.players) |-> Drifts(S2.players[i])]) :
            LET S3 == IF S2.some THEN ClientUpdatePlayers(S2, 1, phys, drifts) ELSE S2
            IN /\ level' = LevelRecord(S3)
               /\ net_sender' = S3.out
               /\ game_events' = S3.gev
               /\ player_index' = S3.pidx
               /\ load_context' = G2.load_context
               /\ contexts' = G2.contexts
               /\ workers' = G2.workers
               /\ last' = Event("Tick", 0, BlocksAsked(S1.events))
    /\ UNCHANGED <<connections, highest_player_index, linked, departed,
                   build>>

\* Game::new and NetworkManager::new on a client: an empty handoff slot
\* and no load running; the first packet for the server is queued.
ClientInit ==
    /\ connections = <<>>
    /\ highest_player_index = 0
    /\ player_index = None
    /\ net_sender = <<Packet(SERVER_ADDR, "reliable_ordered", None,
                             serialize(NetworkMessage("Connected", 0, NoEvent)))>>
    /\ level = NoLevel
    /\ game_events = <<>>
    /\ load_context = 1
    /\ contexts = <<EmptySlot>>
    /\ workers = {}
    /\ elapsed_time = 0
    /\ linked = {}
    /\ build = "client"
    /\ departed = {}
    /\ last = Event("Init", 0, <<>>)

\* What the server sends a client: the level to load, the spawn of the
\* player with index 1 (another client's), and snapshots of that player
\* taken at two times, at z to either side of the place it was spawned at.
ServerEvent(type, index) == [NoEvent EXCEPT !.type = type, !.index = index]

Snapshot(time, z) ==
    serialize(PlayerEventMessage(1,
        [ServerEvent("UpdateState", 1) EXCEPT
            !.timestamp = time, !.fuel = MAX_FUEL,
            !.position = [SpawnPosition(1) EXCEPT ![3] = z]]))

LoadLevelPayload == serialize(GameEventMessage(LoadLevelEvent(LEVEL_NAME, <<>>)))

SpawnPayload ==
    serialize(PlayerEventMessage(1, SpawnPlayerEvent(1, SpawnPosition(1), FALSE, FALSE)))

LATER_TIME == ClockAfter(2 * SYNC_FREQUENCY + 1)

SnapshotPayloads ==
    << LoadLevelPayload, SpawnPayload,
       Snapshot(SYNC_TIME, -F32FromInt(4)), Snapshot(LATER_TIME, -F32FromInt(6)) >>

\* A client's loop runs for MaxTicks ticks while these packets arrive, in
\* any order and any number of times.
NextSnapshots ==
    \/ \E k \in 1..Len(SnapshotPayloads) :
            Room(MaxQueue, MaxOutbound) /\ ClientReceivePacket(SnapshotPayloads, k)
    \/ ClientConnect
    \/ SocketPoll
    \/ \E w \in workers : WorkerFinish(w)
    \/ /\ Len(net_sender) <= MaxOutbound
       /\ elapsed_time < ClockAfter(MaxTicks)
       /\ ClientTick
       /\ elapsed_time' = F32Add(elapsed_time, TIMESTEP)

SpecSnapshots == ClientInit /\ [][NextSnapshots]_vars

\* The UpdateState events a level update applies to a player that is there
\* before and after it: the queue the tick starts with, unless it installs
\* another level.
SnapshotsApplied ==
    IF last'.kind = "Tick" /\ level.some /\ SlotsTaken = {}
    THEN {n \in 1..Len(level.events) :
            /\ level.events[n].type = "UpdateState"
            /\ HasPlayer(level.players, level.events[n].index)
            /\ HasPlayer(level'.players, level.events[n].index)}
    ELSE {}

ControllerOf(players, index) == get_player_by_index(players, index).controller

\* C13: when a level update applies an UpdateState with timestamp t, the
\* entries of the player's previous_states stamped t or earlier are gone
\* after it: what is left is the entries stamped later than t and the one
\* entry the update itself records.
C13_OlderStatesPruned ==
    [][ \A n \in SnapshotsApplied :
            LET e == level.events[n]
                before == ControllerOf(level.players, e.index).previous_states
                after == ControllerOf(level'.players, e.index).previous_states
            IN Len(after) <=
                 Cardinality({m \in 1..Len(before) :
                                 before[m].timestamp > e.timestamp}) + 1 ]_vars

\* A snapshot has been applied to a player whose previous_states held
\* entries.
C13_Witness ==
    /\ last.kind = "Tick"
    /\ level.some
    /\ \E i \in 1..Len(level.players) :
            /\ level.players[i].controller.new_states # <<>>
            /\ Len(level.players[i].controller.previous_states) >= 2

\* C14: an UpdateState older than the snapshot pending for its player is
\* discarded: after the update that handles it, the pending snapshot is
\* not the older one.
C14_StaleSnapshotDiscarded ==
    [][ \A n \in SnapshotsApplied :
            LET e == level.events[n]
                before == ControllerOf(level.players, e.index).new_states
                after == ControllerOf(level'.players, e.index).new_states
            IN (before # <<>> /\ Head(before).timestamp > e.timestamp)
                  => \A m \in 1..Len(after) : after[m].timestamp # e.timestamp ]_vars

\* The earlier snapshot is pending for a player that has already been
\* moved towards the later one.
C14_Witness ==
    /\ last.kind = "Tick"
    /\ level.some
    /\ \E i \in 1..Len(level.players) :
            /\ level.players[i].controller.new_states # <<>>
            /\ Head(level.players[i].controller.new_states).timestamp = SYNC_TIME
            /\ level.players[i].position[3] < SpawnPosition(1)[3]

\* ---------------------------------------------------------------------
\* Reconciliation of one snapshot.
\*
\* The player with index 1 stands where it was spawned, at z = -5, and one
\* snapshot of it arrives, stamped with the time on the clock; no other
\* snapshot and no other level follows.  The snapshot puts the player at
\* z = -4, at z = -4.5, at z = -4.995 (f32 0xBF9FD70A) or at
\* z = 0.10973661 (f32 0x3DE0BD97).
SnapshotTargets ==
    << -F32FromInt(4), -F32Div(F32FromInt(9), F32FromInt(2)), -1084217098, 1038138775 >>

SettlePayloads(time) ==
    << LoadLevelPayload, SpawnPayload >> \o
        [n \in 1..Len(SnapshotTargets) |-> Snapshot(time, SnapshotTargets[n])]

Unmoved ==
    /\ level.some
    /\ level.events = <<>>
    /\ HasPlayer(level.players, 1)
    /\ get_player_by_index(level.players, 1).position = SpawnPosition(1)
    /\ ControllerOf(level.players, 1).new_states = <<>>

NextSettle ==
    \/ \E k \in 1..Len(SettlePayloads(elapsed_time)) :
            /\ Room(MaxQueue, MaxOutbound)
            /\ k = 1 => ~level.some
            /\ k > 2 => Unmoved
            /\ ClientReceivePacket(SettlePayloads(elapsed_time), k)
    \/ ClientConnect
    \/ SocketPoll
    \/ \E w \in workers : WorkerFinish(w)
    \/ /\ Len(net_sender) <= MaxOutbound
       /\ elapsed_time < ClockAfter(MaxSettleTicks)
       /\ ClientTick
       /\ elapsed_time' = F32Add(elapsed_time, TIMESTEP)

SpecSettle == ClientInit /\ [][NextSettle]_vars

\* The players a level update moves towards a snapshot that was pending
\* when it began, the engine leaving them where they are.
Reconciled ==
    IF last'.kind = "Tick" /\ level.some /\ level.events = <<>> /\ SlotsTaken = {}
    THEN {i \in 1..Len(level.players) :
            /\ level.players[i].controller.new_states # <<>>
            /\ Drifts(level.players[i]) = {0}}
    ELSE {}

\* The entry at the head of previous_states once the update has recorded
\* the state of the body p.
OldestState(p) ==
    LET states == p.controller.previous_states IN
    IF states = <<>> THEN PlayerState(0, p.position, p.controller.shoot, p.flight_fuel)
    ELSE IF Len(states) >= PREVIOUS_STATES THEN states[2]
    ELSE states[1]

\* `to` lies on the other side of `target` than `from` on some axis.
Passes(from, to, target) ==
    \E k \in 1..3 : \/ from[k] < target[k] /\ to[k] > target[k]
                    \/ from[k] > target[k] /\ to[k] < target[k]

\* C15: a reconciliation step moves the oldest previous state by no more
\* than its distance from the pending snapshot, and never to the other
\* side of the snapshot's position.
C15_NeverPassesTarget ==
    [][ \A i \in Reconciled :
            LET target == Head(level.players[i].controller.new_states).position
                from == OldestState(level.players[i]).position
                to == Head(level'.players[i].controller.previous_states).position
            IN /\ Magnitude(Difference(to, from)) <= Magnitude(Difference(target, from))
               /\ ~Passes(from, to, target) ]_vars

\* A step has moved a player up to the position of its snapshot, which is
\* no longer pending.
C15_Witness ==
    /\ last.kind = "Tick"
    /\ level.some
    /\ \E i \in 1..Len(level.players), n \in 1..Len(SnapshotTargets) :
            /\ level.players[i].controller.new_states = <<>>
            /\ level.players[i].position[3] = SnapshotTargets[n]

\* The time on the clock n ticks after it showed `time`.
RECURSIVE TicksLater(_, _)
TicksLater(time, n) == IF n = 0 THEN time ELSE F32Add(TicksLater(time, n - 1), TIMESTEP)

\* C16: a snapshot that arrived when the clock showed t is no longer
\* pending once 9 ticks, ceil(TARGET_CATCHUP_TIME / dt) at dt = 1/60 s,
\* have run since.
C16_SettlesInTime ==
    level.some =>
        \A i \in 1..Len(level.players) :
            \A n \in 1..Len(level.players[i].controller.new_states) :
                elapsed_time <
                    TicksLater(level.players[i].controller.new_states[n].timestamp, 9)

\* A snapshot is pending and has been for several ticks.
C16_Witness ==
    /\ level.some
    /\ \E i \in 1..Len(level.players) :
            /\ level.players[i].controller.new_states # <<>>
            /\ elapsed_time >=
                 TicksLater(Head(level.players[i].controller.new_states).timestamp, 5)

\* ---------------------------------------------------------------------
\* Joining.
\*
\* Either build runs.  The server is sent Joined by any address at any
\* time, and by one address the spawn of a player as well (the server
\* queues a SpawnPlayer it is sent, which spawns the player and sends
\* nothing); a client is sent LoadLevel and the spawn of a player any number
\* of times while its loop runs for MaxTicks ticks, and its connection to
\* the server comes and goes.
JoinInit == Init \/ ClientInit

ServerJoinPayloads == << JoinedPayload, SpawnPayload >>

ClientJoinPayloads == << LoadLevelPayload, SpawnPayload >>

NextJoin ==
    \/ build = "server" /\ NextFor(ServerJoinPayloads, {1}, "void")
    \/ /\ build = "client"
       /\ \/ \E k \in 1..Len(ClientJoinPayloads) :
                  Room(MaxQueue, MaxOutbound) /\ ClientReceivePacket(ClientJoinPayloads, k)
          \/ Room(MaxQueue, MaxOutbound) /\ ClientConnect
          \/ Room(MaxQueue, MaxOutbound) /\ ClientDisconnect
          \/ SocketPoll
          \/ \E w \in workers : WorkerFinish(w)
          \/ /\ Len(net_sender) <= MaxOutbound
             /\ elapsed_time < ClockAfter(MaxTicks)
             /\ ClientTick
             /\ elapsed_time' = F32Add(elapsed_time, TIMESTEP)

SpecJoin == JoinInit /\ [][NextJoin]_vars

IsJoinedPacket(packet) ==
    /\ packet.addr = SERVER_ADDR
    /\ deserialize(packet.payload).ok
    /\ IsJoined(deserialize(packet.payload).msg)

IsSpawnPacket(packet) ==
    /\ deserialize(packet.payload).ok
    /\ deserialize(packet.payload).msg.tag = "PlayerEvent"
    /\ deserialize(packet.payload).msg.event.type = "SpawnPlayer"

\* C19: a step of a client queues a Joined packet for the server if it is
\* the update that installs a loaded level, and then one packet, and
\* queues none otherwise; a step of the server sends SpawnPlayer packets
\* only if it handles a Joined packet from an address the registry holds.
C19_JoinedOnInstallSpawnOnJoined ==
    [][ /\ build = "client" =>
            Len(SelectSeq(NewPackets, IsJoinedPacket)) =
                (IF last'.kind = "Tick" /\ SlotsTaken # {} THEN 1 ELSE 0)
        /\ (build = "server" /\ SelectSeq(NewPackets, IsSpawnPacket) # <<>>)
           => /\ last'.kind = "Packet"
              /\ IsJoined(ReceivedNow)
              /\ get_index_for_address(connections, last'.addr) # None ]_vars

\* A client has just installed its second level and the Joined packet for
\* it is queued.
C19_Witness ==
    /\ build = "client"
    /\ last.kind = "Tick"
    /\ level.some
    /\ Len(contexts) >= 3
    /\ \E n \in 1..Len(net_sender) : IsJoinedPacket(net_sender[n])

\* ---------------------------------------------------------------------
\* Events relayed to a client.
\*
\* The server sends a client the level to load, the spawn of the player
\* with index 1 and what that player did: it moved, looked around, shot,
\* jumped and flew; a snapshot of it, the removal of block 1 and the kill
\* of the player follow.  Each packet arrives any number of times.
RelayedEvent(type, active) ==
    PlayerEventMessage(1, [ServerEvent(type, 1) EXCEPT !.active = active,
                                                       !.fuel = MAX_FUEL])

RelayPayloads ==
    << LoadLevelPayload, SpawnPayload,
       serialize(RelayedEvent("MoveForward", TRUE)),
       serialize(RelayedEvent("LookAround", FALSE)),
       serialize(RelayedEvent("ShootWeapon", TRUE)),
       serialize(RelayedEvent("Jump", FALSE)),
       serialize(RelayedEvent("Fly", TRUE)),
       Snapshot(SYNC_TIME, -F32FromInt(4)),
       serialize(RelayedEvent("DestroyBlock", FALSE)),
       serialize(RelayedEvent("KillPlayer", FALSE)) >>

NextRelay ==
    \/ \E k \in 1..Len(RelayPayloads) :
            Room(MaxQueue, MaxOutbound) /\ ClientReceivePacket(RelayPayloads, k)
    \/ Room(MaxQueue, MaxOutbound) /\ ClientConnect
    \/ SocketPoll
    \/ \E w \in workers : WorkerFinish(w)
    \/ /\ Len(net_sender) <= MaxOutbound
       /\ elapsed_time < ClockAfter(MaxRelayTicks)
       /\ ClientTick
       /\ elapsed_time' = F32Add(elapsed_time, TIMESTEP)

SpecRelay == ClientInit /\ [][NextRelay]_vars

\* The PlayerEvent variants the client build has an arm for.
ClientArms ==
    {"ShootWeapon", "DestroyBlock", "UpdateState", "LookAround", "MoveBackward",
     "MoveForward", "MoveLeft", "MoveRight", "Jump", "Fly", "KillPlayer", "SpawnPlayer"}

ClientReceivesPlayerEvent ==
    /\ build = "client"
    /\ last'.kind = "Packet"
    /\ deserialize(last'.pk).ok
    /\ ReceivedNow.tag = "PlayerEvent"

NextTimeout ==
    \/ NextFor(JoinPayloads, Addr, "void")
    \/ \E a \in Addr : Room(MaxQueue, MaxOutbound) /\ Timeout(a)

SpecTimeout == Init /\ [][NextTimeout]_vars

\* C21: a Timeout for a registered address a with index i removes a from
\* the registry, removes player i from the level and sends KillPlayer{i}
\* reliably to the remaining connections.
C21_TimeoutDisconnects ==
    [][ (last'.kind = "Timeout" /\ SenderIndexNow # None)
        => LET Others(c) == c.socket_addr # last'.addr
               rest == SelectSeq(connections, Others)
           IN /\ get_index_for_address(connections', last'.addr) = None
              /\ ~HasPlayer(level'.players, SenderIndexNow)
              /\ Len(NewPackets) = Len(rest)
              /\ \A n \in 1..Len(rest) :
                    /\ NewPackets[n].addr = rest[n].socket_addr
                    /\ IsKill(NewPackets[n], SenderIndexNow) ]_vars

\* A Timeout has just been handled for one of two registered addresses
\* whose player is in the level: it is still registered, its player is
\* still there and nobody was told anything.
C21_Witness ==
    /\ last.kind = "Timeout"
    /\ Len(connections) = 2
    /\ SenderIndex # None
    /\ HasPlayer(level.players, SenderIndex)
    /\ net_sender = <<>>

QueuePayloads ==
    << JoinedPayload,
       serialize(ClientEvent("MoveForward", TRUE)),
       serialize(ClientEvent("MoveForward", FALSE)) >>

\* A session that nobody leaves, whose players fall out of the arena, in
\* which the network thread hands over a further event while one waits in
\* the level's queue.
NextQueue ==
    \/ \E a \in Addr, k \in 1..Len(QueuePayloads) :
            /\ k = 1 \/ a = 1
            /\ Room(MaxBacklog, MaxOutbound)
            /\ ReceivePacket(a, QueuePayloads, k)
    \/ \E a \in Addr : Room(MaxQueue, MaxOutbound) /\ Connect(a)
    \/ SocketPoll
    \/ \E w \in workers : WorkerFinish(w)
    \/ Len(net_sender) <= MaxOutbound /\ Tick("arena", QUIET_TIME) /\ UNCHANGED elapsed_time

SpecQueue == Init /\ [][NextQueue]_vars

\* Where in the queue player i comes to exist: 0 if it is in the level
\* already, else the place of its first SpawnPlayer.
Born(i) ==
    IF HasPlayer(level.players, i) THEN 0
    ELSE CHOOSE k \in 1..Len(level.events) :
            /\ level.events[k].type = "SpawnPlayer" /\ level.events[k].index = i
            /\ \A j \in 1..(k - 1) :
                  ~(level.events[j].type = "SpawnPlayer" /\ level.events[j].index = i)

\* The places of the queued MoveForward events that find player i.
Steers(i) ==
    {k \in (Born(i) + 1)..Len(level.events) :
        level.events[k].type = "MoveForward" /\ level.events[k].index = i}

SetMax(S) == CHOOSE x \in S : \A y \in S : y <= x

IsContactKill(e, i) == e.type = "KillPlayerFromIntersection" /\ e.collider = i

\* C22: a tick of an installed level leaves none of the events queued
\* before it in the queue and applies them in queue order: a player's
\* move_forward is what the last MoveForward queued for it says, a queued
\* SpawnPlayer has its player in the level unless a contact kill was queued
\* too, and a contact kill queued for a player of the level has removed it
\* by the end of the tick, the KillPlayer it queues being applied in the
\* same drain.  What is left in the queue is what the tick's own player
\* updates queued: at most one contact kill per player.
C22_DrainedInOrder ==
    [][ (last'.kind = "Tick" /\ level.some /\ SlotsTaken = {})
        => /\ \A n \in 1..Len(level'.events) :
                 /\ level'.events[n].type = "KillPlayerFromIntersection"
                 /\ HasPlayer(level'.players, level'.events[n].collider)
                 /\ \A m \in 1..(n - 1) :
                       level'.events[m].collider # level'.events[n].collider
           /\ \A n \in 1..Len(level'.players) :
                 LET i == level'.players[n].index IN
                 level'.players[n].controller.move_forward =
                     IF Steers(i) # {} THEN level.events[SetMax(Steers(i))].active
                     ELSE IF Born(i) = 0
                          THEN get_player_by_index(level.players, i).controller.move_forward
                          ELSE FALSE
           /\ \A k \in 1..Len(level.events) :
                 /\ ( /\ level.events[k].type = "SpawnPlayer"
                      /\ \A j \in 1..Len(level.events) :
                            ~IsContactKill(level.events[j], level.events[k].index) )
                    => HasPlayer(level'.players, level.events[k].index)
                 /\ ( /\ level.events[k].type = "KillPlayerFromIntersection"
                      /\ HasPlayer(level.players, level.events[k].collider) )
                    => ~HasPlayer(level'.players, level.events[k].collider) ]_vars

\* A tick has just drained a contact kill: the connections were told
\* KillPlayer, which the kill queued behind itself, and the player is gone
\* in the same tick, while another player lives on with an empty queue.
C22_Witness ==
    /\ last.kind = "Tick"
    /\ level.some
    /\ Len(level.players) = 1
    /\ level.events = <<>>
    /\ \E n \in 1..Len(connections) :
          /\ ~HasPlayer(level.players, connections[n].player_index)
          /\ \E m \in 1..Len(net_sender) :
                IsKill(net_sender[m], connections[n].player_index)

\* The intent flags a drain sets (jump is consumed by the player's update
\* that follows the drain in the same tick).
Intent(c) ==
    [move_forward |-> c.move_forward, move_backward |-> c.move_backward,
     move_left |-> c.move_left, move_right |-> c.move_right,
     fly |-> c.fly, shoot |-> c.shoot]

\* C23: a MoveForward(active = a) packet from the registered connection
\* with index i queues exactly one event, MoveForward{i, a}; and the tick
\* that drains it leaves player i with move_forward = a and every other
\* intent flag of every player of the level as it was.
C23_MoveForwardSetsOneFlag ==
    [][ /\ ( /\ last'.kind = "Packet"
             /\ ReceivedNow.tag = "PlayerEvent"
             /\ ReceivedNow.event.type = "MoveForward"
             /\ level.some
             /\ SenderIndexNow # None )
          => /\ Len(NewEvents) = 1
             /\ NewEvents[1].type = "MoveForward"
             /\ NewEvents[1].index = SenderIndexNow
             /\ NewEvents[1].active = ReceivedNow.event.active
             /\ level'.players = level.players
        /\ ( /\ last'.kind = "Tick"
             /\ SlotsTaken = {}
             /\ Len(level.events) = 1
             /\ level.events[1].type = "MoveForward"
             /\ HasPlayer(level.players, level.events[1].index) )
          => /\ Len(level'.players) = Len(level.players)
             /\ \A n \in 1..Len(level.players) :
                   /\ level'.players[n].index = level.players[n].index
                   /\ Intent(level'.players[n].controller) =
                        IF level.players[n].index = level.events[1].index
                        THEN [Intent(level.players[n].controller)
                                EXCEPT !.move_forward = level.events[1].active]
                        ELSE Intent(level.players[n].controller) ]_vars

\* A tick has just drained a MoveForward(true) of one of two players that
\* were moving backward: that player moves forward too, the other does not.
C23_Witness ==
    /\ last.kind = "Tick"
    /\ level.events = <<>>
    /\ Len(level.players) = 2
    /\ \E n, m \in 1..2 :
          /\ level.players[n].controller.move_forward
          /\ level.players[n].controller.move_backward
          /\ ~level.players[m].controller.move_forward

\* The players of the level that a contact kill waiting in the queue names.
ContactKilled ==
    {i \in {level.players[n].index : n \in 1..Len(level.players)} :
        \E k \in 1..Len(level.events) : IsContactKill(level.events[k], i)}

Reloads(events) ==
    \E n \in 1..Len(events) : events[n].type = "LoadLevel" /\ events[n].state = <<>>

\* C24: a tick that drains a contact kill for a player of the level removes
\* the player and sends KillPlayer to the connections, without a reload, if
\* the level has three or more players; with fewer it leaves the player
\* in the level, sends no KillPlayer and queues a LoadLevel with no
\* destroyed blocks.
C24_KillOnlyWithThree ==
    [][ (last'.kind = "Tick" /\ level.some /\ SlotsTaken = {})
        => \A i \in ContactKilled :
              IF Len(level.players) >= RELOAD_PLAYERS
              THEN /\ ~HasPlayer(level'.players, i)
                   /\ \E n \in 1..Len(net_sender') : IsKill(net_sender'[n], i)
                   /\ ~Reloads(game_events')
              ELSE /\ HasPlayer(level'.players, i)
                   /\ ~\E n \in 1..Len(NewPackets) : IsKill(NewPackets[n], i)
                   /\ Reloads(game_events') ]_vars

\* A tick has just drained the contact kill of one of two players: the
\* player is gone, its connection was sent KillPlayer, and the reload is
\* queued as well.
C24_Witness ==
    /\ last.kind = "Tick"
    /\ level.some
    /\ Len(level.players) = 1
    /\ Len(connections) = 2
    /\ Reloads(game_events)
    /\ \E n \in 1..Len(connections) :
          /\ ~HasPlayer(level.players, connections[n].player_index)
          /\ \E m \in 1..Len(net_sender) :
                IsKill(net_sender[m], connections[n].player_index)

\* How far the snapshot s is from the oldest state recorded for the body p.
ErrorTo(p, s) ==
    Magnitude(Difference(s.position,
        IF p.controller.previous_states = <<>> THEN p.position
        ELSE Head(p.controller.previous_states).position))

\* C25: a snapshot leaves new_states only when it is reconciled; a level
\* update that applies a further UpdateState to a player with a pending
\* snapshot whose error is larger than epsilon keeps that snapshot pending.
C25_OnlyReconciledRemoved ==
    [][ \A n \in SnapshotsApplied :
            LET e == level.events[n]
                p == get_player_by_index(level.players, e.index)
                after == ControllerOf(level'.players, e.index).new_states
            IN (/\ p.controller.new_states # <<>>
                /\ ErrorTo(p, Head(p.controller.new_states)) > F32_EPSILON)
               => \E m \in 1..Len(after) : after[m] = Head(p.controller.new_states) ]_vars

\* The later snapshot is pending for a player that stands between its
\* spawn position and the position of the earlier snapshot, which it was
\* being moved to.
C25_Witness ==
    /\ last.kind = "Tick"
    /\ level.some
    /\ \E i \in 1..Len(level.players) :
            /\ Len(level.players[i].controller.new_states) = 1
            /\ Head(level.players[i].controller.new_states).timestamp = LATER_TIME
            /\ level.players[i].position[3] > SpawnPosition(1)[3]
            /\ level.players[i].position[3] < -F32FromInt(4)

\* ---------------------------------------------------------------------
\* A correction episode.
\*
\* The player with index 1 is spawned at z = -5 and the snapshot that puts
\* it at z = -4.5 arrives, and arrives again at any time, while the loop
\* runs for MaxSettleTicks ticks.
EpisodePayloads ==
    << LoadLevelPayload, SpawnPayload,
       Snapshot(SYNC_TIME, -F32Div(F32FromInt(9), F32FromInt(2))) >>

NextEpisode ==
    \/ \E k \in 1..Len(EpisodePayloads) :
            /\ Room(MaxQueue, MaxOutbound)
            /\ k = 1 => ~level.some
            /\ ClientReceivePacket(EpisodePayloads, k)
    \/ ClientConnect
    \/ SocketPoll
    \/ \E w \in workers : WorkerFinish(w)
    \/ /\ Len(net_sender) <= MaxOutbound
       /\ elapsed_time < ClockAfter(MaxSettleTicks)
       /\ ClientTick
       /\ elapsed_time' = F32Add(elapsed_time, TIMESTEP)

SpecEpisode == ClientInit /\ [][NextEpisode]_vars

\* The players that are in the level before and after a level update which
\* installs no other level.
Updated ==
    IF last'.kind = "Tick" /\ level.some /\ SlotsTaken = {}
    THEN {i \in {level.players[n].index : n \in 1..Len(level.players)} :
            HasPlayer(level'.players, i)}
    ELSE {}

\* The UpdateState events for player i that the update applies.
Replacing(i) == {n \in SnapshotsApplied : level.events[n].index = i}

\* max(min_smooth_speed, pos_diff_mag / target_catchup_time) for the error
\* between the snapshot e and the oldest state recorded for the body p.
FreshSpeed(p, e) ==
    F32Max(F32Div(MOVEMENT_SPEED, F32FromInt(6)),
           F32Div(Magnitude(Difference(e.position, OldestState(p).position)),
                  TARGET_CATCHUP_TIME))

\* C26: from one tick to the next smoothing_speed does not decrease while
\* the same snapshot stays pending; it is 0 after the tick that pops the
\* snapshot; it decreases only in a tick that pops the snapshot or applies
\* a new UpdateState; and after a tick that applies a new UpdateState it is
\* what the new snapshot's error gives starting from 0.
C26_SmoothingSpeedEpisode ==
    [][ \A i \in Updated :
            LET p == get_player_by_index(level.players, i)
                c == p.controller
                d == ControllerOf(level'.players, i)
            IN /\ (Replacing(i) = {} /\ c.new_states # <<>> /\ d.new_states # <<>>)
                    => /\ d.smoothing_speed >= c.smoothing_speed
                       /\ d.new_states = c.new_states
               /\ ((c.new_states # <<>> \/ Replacing(i) # {}) /\ d.new_states = <<>>)
                    => d.smoothing_speed = 0
               /\ d.smoothing_speed < c.smoothing_speed
                    => (d.new_states = <<>> \/ Replacing(i) # {})
               /\ (Replacing(i) # {} /\ d.new_states # <<>>)
                    => \E n \in Replacing(i) :
                          d.smoothing_speed = FreshSpeed(p, level.events[n]) ]_vars

\* A snapshot is pending after a tick with a speed above the minimum and
\* below the speed its first arrival gave: it has arrived again since, when
\* part of the error was closed.
C26_Witness ==
    /\ last.kind = "Tick"
    /\ level.some
    /\ \E i \in 1..Len(level.players) :
          /\ level.players[i].controller.new_states # <<>>
          /\ level.players[i].controller.smoothing_speed > F32Div(MOVEMENT_SPEED, F32FromInt(6))
          /\ level.players[i].controller.smoothing_speed <
                F32Div(F32Div(F32FromInt(1), F32FromInt(2)), TARGET_CATCHUP_TIME)

\* ---------------------------------------------------------------------
\* Recording.
\*
\* The player with index 1 is spawned and told to move forward, so that the
\* engine moves its body between ticks, and a snapshot of it arrives, while
\* the loop runs for MaxTicks ticks.
RecordPayloads ==
    << LoadLevelPayload, SpawnPayload,
       serialize(RelayedEvent("MoveForward", TRUE)),
       Snapshot(SYNC_TIME, -F32FromInt(4)) >>

NextRecord ==
    \/ \E k \in 1..Len(RecordPayloads) :
            /\ Room(MaxQueue, MaxOutbound)
            /\ k = 1 => ~level.some
            /\ ClientReceivePacket(RecordPayloads, k)
    \/ ClientConnect
    \/ SocketPoll
    \/ \E w \in workers : WorkerFinish(w)
    \/ /\ Len(net_sender) <= MaxOutbound
       /\ elapsed_time < ClockAfter(MaxTicks)
       /\ ClientTick
       /\ elapsed_time' = F32Add(elapsed_time, TIMESTEP)

SpecRecord == ClientInit /\ [][NextRecord]_vars

\* C27: every controller's previous_states holds at most 3 entries; a level
\* update appends the state of the body as the newest entry, after dropping
\* the oldest entry if there were 3, and keeps the others in their order:
\* unchanged when no snapshot is being reconciled, and moved together, so
\* that none overtakes another, when one is.
C27_PreviousStatesWindow ==
    [][ /\ \A n \in 1..Len(level'.players) :
              Len(level'.players[n].controller.previous_states) <= PREVIOUS_STATES
        /\ \A i \in Updated :
              LET c == ControllerOf(level.players, i)
                  d == ControllerOf(level'.players, i)
                  kept == IF Len(c.previous_states) >= PREVIOUS_STATES
                          THEN Tail(c.previous_states)
                          ELSE c.previous_states
              IN /\ Len(d.previous_states) = Len(kept) + 1
                 /\ Last(d.previous_states).position =
                        get_player_by_index(level'.players, i).position
                 /\ (c.new_states = <<>> /\ Replacing(i) = {})
                        => SubSeq(d.previous_states, 1, Len(kept)) = kept
                 /\ \A j, k \in 1..Len(kept) :
                        kept[j].position[3] <= kept[k].position[3]
                           => d.previous_states[j].position[3]
                                 <= d.previous_states[k].position[3] ]_vars

\* A buffer of three states recorded while the body moved forward, the
\* oldest of them after the body had left its spawn position: the states
\* recorded before it have been dropped.
C27_Witness ==
    /\ last.kind = "Tick"
    /\ level.some
    /\ \E i \in 1..Len(level.players) :
          LET states == level.players[i].controller.previous_states IN
          /\ Len(states) = PREVIOUS_STATES
          /\ states[1].position[3] > SpawnPosition(1)[3]
          /\ states[1].position[3] < states[2].position[3]
          /\ states[2].position[3] < states[3].position[3]

\* ---------------------------------------------------------------------
\* Reloading.
\*
\* A client is told to load the level as it was built and with its block
\* destroyed, any number of times, and between the loads a player is
\* spawned and the block is destroyed in the level installed.
ReloadPayloads ==
    << LoadLevelPayload,
       serialize(GameEventMessage(LoadLevelEvent(LEVEL_NAME, <<1>>))),
       SpawnPayload,
       serialize(RelayedEvent("DestroyBlock", FALSE)) >>

NextReload ==
    \/ \E k \in 1..Len(ReloadPayloads) :
            Room(MaxQueue, MaxOutbound) /\ ClientReceivePacket(ReloadPayloads, k)
    \/ ClientConnect
    \/ SocketPoll
    \/ \E w \in workers : WorkerFinish(w)
    \/ /\ Len(net_sender) <= MaxOutbound
       /\ elapsed_time < ClockAfter(MaxTicks)
       /\ ClientTick
       /\ elapsed_time' = F32Add(elapsed_time, TIMESTEP)

SpecReload == ClientInit /\ [][NextReload]_vars

\* C28: the tick that takes a finished load out of its handoff slot leaves
\* a level of the load's name with none of the previous level's players,
\* whose scene lacks the blocks of the load's destroyed-block list and no
\* others, and leaves the slot empty and no load pending.
C28_InstallReplacesLevel ==
    [][ \A c \in SlotsTaken :
            /\ level'.some
            /\ level'.name = contexts[c].name
            /\ level'.players = <<>>
            /\ \A b \in Blocks :
                  level'.scene[b] = "removed"
                     <=> \E n \in 1..Len(contexts[c].state) : contexts[c].state[n] = b
            /\ contexts'[c] = EmptySlot
            /\ load_context' = None ]_vars

\* The second load has just been installed in place of the level of the
\* first: the new level has its block and no player, both slots are empty
\* and the server was told Joined.
C28_Witness ==
    /\ last.kind = "Tick"
    /\ level.some
    /\ load_context = None
    /\ Len(contexts) = 3
    /\ level.players = <<>>
    /\ level.scene[1] = "block"
    /\ contexts[2].some = FALSE
    /\ \E n \in 1..Len(net_sender) : IsJoinedPacket(net_sender[n])

\* The load requested last is still running: its worker holds the lock of
\* the handoff slot, or nothing has been stored in the slot yet.
LoadPending ==
    /\ load_context # None
    /\ LoadLevelCount(game_events) = 0
    /\ \/ ~TryLock([load_context |-> load_context, contexts |-> contexts,
                    workers |-> workers])
       \/ ~contexts[load_context].some

\* C29: while the load requested last is still running the tick loop can
\* take its step, and the step runs the update of the level there is,
\* draining its queue, and leaves the level in place and load_context, the
\* slots and the workers as they are.
C29_TickDoesNotWait ==
    /\ [](LoadPending => ENABLED (Tick("void", QUIET_TIME) /\ UNCHANGED elapsed_time))
    /\ [][ (last'.kind = "Tick" /\ LoadPending)
            => /\ load_context' = load_context
               /\ contexts' = contexts
               /\ workers' = workers
               /\ level'.some = level.some
               /\ level'.name = level.name
               /\ level'.scene = level.scene
               /\ level'.events = <<>> ]_vars

\* A tick has just run the level's update while the worker of the pending
\* load holds the lock of the handoff slot.
C29_Witness ==
    /\ last.kind = "Tick"
    /\ level.some
    /\ load_context # None
    /\ \E w \in workers : w.ctx = load_context /\ w.pc = "locked"

\* ---------------------------------------------------------------------
\* Progress of a load.
\*
\* The main loop calls Game::update on every iteration and the socket
\* thread polls without end, so both steps are taken whenever they stay
\* possible; nothing makes a worker finish.  The number of loads is bounded
\* where they are requested, so that the loop itself is never held up.
TickStep ==
    /\ Len(net_sender) <= MaxOutbound
    /\ Tick("void", QUIET_TIME)
    /\ UNCHANGED elapsed_time

NextLive ==
    \/ \E a \in Addr :
            /\ Room(MaxQueue, MaxOutbound)
            /\ Len(contexts) + LoadLevelCount(game_events) < MaxLoads
            /\ Connect(a)
    \/ \E a \in Addr : Room(MaxQueue, MaxOutbound) /\ Disconnect(a)
    \/ SocketPoll
    \/ \E w \in workers : WorkerLock(w)
    \/ \E w \in workers : WorkerStore(w)
    \/ \E w \in workers : WorkerFail(w)
    \/ TickStep

SpecLive == Init /\ [][NextLive]_vars /\ WF_vars(TickStep) /\ WF_vars(SocketPoll)

\* C30: a result stored in the slot of the load requested last is taken
\* out of it by a tick that installs a level, unless a later load takes
\* that slot's place first; and a slot that is empty with no worker left to
\* fill it stays empty, so that no result is installed a second time.
C30_StoredLoadInstalledOnce ==
    /\ \A c \in 1..MaxLoads :
          (c <= Len(contexts) /\ contexts[c].some /\ load_context = c)
             ~> ((c <= Len(contexts) /\ ~contexts[c].some) \/ load_context # c)
    /\ [][ /\ \A c \in SlotsTaken : last'.kind = "Tick" /\ level'.some
           /\ \A c \in 1..Len(contexts) :
                 (~contexts[c].some /\ ~\E w \in workers : w.ctx = c)
                    => ~contexts'[c].some ]_vars

\* The first load has been installed: its slot is empty again, no load is
\* pending and no worker is left.
C30_Witness ==
    /\ last.kind = "Tick"
    /\ level.some
    /\ load_context = None
    /\ Len(contexts) = 1
    /\ ~contexts[1].some
    /\ workers = {}

\* ---------------------------------------------------------------------
\* C31..C40: further claims

\* No worker of this set works on slot c.
Abandoned(ws, c) == ~\E w \in ws : w.ctx = c

\* C31: a worker that fails was still building its level: the step leaves
\* no worker on its slot and the slot empty, a slot that is empty with no
\* worker on it stays so, and a tick that polls such a slot while no new
\* load is queued gets the lock, finds nothing and leaves the level and the
\* pending load as they were.
C31_FailedLoadLeavesSlotFree ==
    [][ /\ last'.kind = "WorkerFail" =>
              /\ workers' # workers
              /\ \A w \in workers \ workers' :
                    /\ w.pc = "loading"
                    /\ Abandoned(workers', w.ctx)
                    /\ ~contexts'[w.ctx].some
        /\ \A c \in 1..Len(contexts) :
              (Abandoned(workers, c) /\ ~contexts[c].some)
                 => (Abandoned(workers', c) /\ ~contexts'[c].some)
        /\ ( /\ last'.kind = "Tick"
             /\ load_context # None
             /\ LoadLevelCount(game_events) = 0
             /\ Abandoned(workers, load_context)
             /\ ~contexts[load_context].some )
           => /\ TryLock([load_context |-> load_context, contexts |-> contexts,
                          workers |-> workers])
              /\ load_context' = load_context
              /\ level'.some = level.some ]_vars

\* A tick has polled the slot of a load whose worker failed: the load is
\* still the pending one, its slot is empty and nobody works on it.
C31_Witness ==
    /\ last.kind = "Tick"
    /\ load_context # None
    /\ Abandoned(workers, load_context)
    /\ ~contexts[load_context].some

\* ---------------------------------------------------------------------
\* Stream ids.  A server that has been up for a while: LongRunIndex
\* connections have come and gone, the level of the last reset is installed
\* and nobody is connected.  The next connections get indices on both sides
\* of the first byte's range.
StreamInit ==
    /\ connections = <<>>
    /\ highest_player_index = LongRunIndex
    /\ player_index = None
    /\ net_sender = <<>>
    /\ level = NewLevel(LEVEL_NAME)
    /\ game_events = <<>>
    /\ load_context = None
    /\ contexts = <<EmptySlot>>
    /\ workers = {}
    /\ elapsed_time = 0
    /\ linked = {}
    /\ build = "server"
    /\ departed = {}
    /\ last = Event("Init", 0, <<>>)

ConnectedPayload == serialize(NetworkMessage("Connected", 0, NoEvent))

StreamPayloads == <<JoinedPayload, ConnectedPayload>>

NextStream ==
    \/ \E a \in Addr, k \in 1..Len(StreamPayloads) :
            /\ Room(MaxQueue, MaxOutbound)
            /\ ReceivePacket(a, StreamPayloads, k)
    \/ \E a \in Addr :
            /\ Room(MaxQueue, MaxOutbound)
            /\ ConnectWithin(a, LongRunIndex + MaxIndex)
    \/ \E a \in Addr : Room(MaxQueue, MaxOutbound) /\ Disconnect(a)
    \/ SocketPoll
    \/ \E w \in workers : WorkerFinish(w)
    \/ Len(net_sender) <= MaxOutbound /\ Tick("arena", QUIET_TIME) /\ UNCHANGED elapsed_time

SpecStream == StreamInit /\ [][NextStream]_vars

\* A packet of one of the three reliable send functions: reliable, and not
\* the echo of a Connected packet.
IsReliableSend(p) == p.delivery = "reliable_ordered" /\ p.payload # ConnectedPayload

\* C32: every packet a step queues through the reliable send functions
\* for an address that is in the registry after the step is on the stream
\* numbered by the low byte of that connection's index, a value in 0..255;
\* so the packets for one connection are all on one stream.
C32_StreamIsLowByteOfIndex ==
    [][ \A n \in 1..Len(NewPackets) :
            LET p == NewPackets[n] IN
            (IsReliableSend(p) /\ p.addr \in Addresses(connections'))
               => /\ p.stream \in 0..255
                  /\ \E i \in 1..Len(connections') :
                        /\ connections'[i].socket_addr = p.addr
                        /\ connections'[i].player_index % 256 = p.stream ]_vars

\* Reliable packets are on their way to a connection whose index no longer
\* fits a byte.
C32_Witness ==
    \E n \in 1..Len(net_sender), i \in 1..Len(connections) :
        /\ IsReliableSend(net_sender[n])
        /\ net_sender[n].addr = connections[i].socket_addr
        /\ connections[i].player_index >= 256
        /\ net_sender[n].stream = connections[i].player_index - 256

\* ---------------------------------------------------------------------
\* Spawning twice.  The server is sent Joined by any address and, by one
\* address, the spawn of players 1 and 2 as the current player, two events
\* at most between ticks; nobody leaves.
SpawnTick ==
    /\ Len(net_sender) <= MaxOutbound
    /\ Tick("void", QUIET_TIME)
    /\ UNCHANGED elapsed_time

OwnSpawn(index) ==
    serialize(PlayerEventMessage(index,
        SpawnPlayerEvent(index, SpawnPosition(index), FALSE, TRUE)))

SpawnPayloads == << JoinedPayload, OwnSpawn(1), OwnSpawn(2) >>

NextSpawn ==
    \/ \E a \in Addr, k \in 1..Len(SpawnPayloads) :
            /\ k = 1 \/ a = 1
            /\ Room(MaxBacklog, MaxOutbound)
            /\ ReceivePacket(a, SpawnPayloads, k)
    \/ \E a \in Addr : Room(MaxQueue, MaxOutbound) /\ Connect(a)
    \/ SocketPoll
    \/ \E w \in workers : WorkerFinish(w)
    \/ SpawnTick

SpecSpawn == Init /\ [][NextSpawn]_vars

PlayerIndices(players) == [i \in 1..Len(players) |-> players[i].index]

\* The queued spawns of a player that the level does not hold.
FreshSpawns ==
    {n \in 1..Len(level.events) :
        /\ level.events[n].type = "SpawnPlayer"
        /\ ~HasPlayer(level.players, level.events[n].index)}

\* C33: no two players of the level have the same index; and a tick that
\* installs no level and drains a queue in which every spawn is of a player
\* the level holds leaves the players' indices and the local player_index
\* as they were.
C33_OnePlayerPerIndex ==
    [][ /\ \A i, j \in 1..Len(level'.players) :
              level'.players[i].index = level'.players[j].index => i = j
        /\ ( /\ last'.kind = "Tick"
             /\ level.some
             /\ SlotsTaken = {}
             /\ LoadLevelCount(game_events) = 0
             /\ FreshSpawns = {}
             /\ \A n \in 1..Len(level.events) : level.events[n].type = "SpawnPlayer" )
           => /\ PlayerIndices(level'.players) = PlayerIndices(level.players)
              /\ player_index' = player_index ]_vars

\* The level holds two players, the local player among them, and all that
\* waits in the queue is the spawn of the other one as the current player;
\* the next tick can drain it.
C33_Witness ==
    /\ level.some
    /\ Len(level.players) = 2
    /\ player_index # None
    /\ Len(level.events) = 1
    /\ level.events[1].type = "SpawnPlayer"
    /\ level.events[1].current_player
    /\ level.events[1].index # player_index
    /\ HasPlayer(level.players, level.events[1].index)
    /\ ENABLED SpawnTick

\* C34: a Connect that the server handles leaves the address in the
\* registry, with a level installed or without, and an address in the
\* registry stays there through every step that is not its Disconnect.
C34_ConnectRegisters ==
    [][ /\ last'.kind = "Connect" => last'.addr \in Addresses(connections')
        /\ \A a \in Addresses(connections) :
              ~(last'.kind = "Disconnect" /\ last'.addr = a)
                 => a \in Addresses(connections') ]_vars

\* A Connect has just been handled while no level was installed: the
\* transport holds the address connected and the registry does not know it.
C34_Witness ==
    /\ last.kind = "Connect"
    /\ ~level.some
    /\ last.addr \in linked
    /\ last.addr \notin Addresses(connections)

\* ---------------------------------------------------------------------
\* Leaving early.  Connections come and go, and the transport may report
\* that an address is gone while an event still waits in the level's queue.
NextLeave ==
    \/ \E a \in Addr :
            /\ Room(MaxQueue, MaxOutbound)
            /\ ReceivePacket(a, JoinPayloads, 1)
    \/ \E a \in Addr : Room(MaxQueue, MaxOutbound) /\ Connect(a)
    \/ \E a \in Addr : Room(MaxBacklog, MaxOutbound) /\ Disconnect(a)
    \/ SocketPoll
    \/ \E w \in workers : WorkerFinish(w)
    \/ Len(net_sender) <= MaxOutbound /\ Tick("void", QUIET_TIME) /\ UNCHANGED elapsed_time

SpecLeave == Init /\ [][NextLeave]_vars

Registered(conns) == {conns[n].player_index : n \in 1..Len(conns)}

\* C35: after a tick every player of the level has the index of a
\* connection in the registry.
C35_PlayersAreRegistered ==
    [][ last'.kind = "Tick"
        => \A i \in 1..Len(level'.players) :
              level'.players[i].index \in Registered(connections') ]_vars

\* A tick has spawned the player of an address that had left: the index
\* is one of a departed connection and no connection holds it.
C35_Witness ==
    /\ last.kind = "Tick"
    /\ \E i \in 1..Len(level.players) :
          /\ level.players[i].index \in departed
          /\ level.players[i].index \notin Registered(connections)

\* ---------------------------------------------------------------------
\* Catching up.  A client that joins a running session is sent, on its
\* ordered stream, first the level with the blocks destroyed so far (none,
\* or block 1) and then the DestroyBlock of every block the server destroys
\* from then on; its connection may come and go.  Its loop, its socket
\* thread and its load worker keep running.
CatchUpPayloads ==
    << LoadLevelPayload,
       serialize(GameEventMessage(LoadLevelEvent(LEVEL_NAME, <<1>>))),
       serialize(RelayedEvent("DestroyBlock", FALSE)) >>

SnapshotReceived == LoadLevelCount(game_events) > 0 \/ Len(contexts) > 1

CatchUpTick ==
    /\ Len(net_sender) <= MaxOutbound
    /\ ClientTick
    /\ UNCHANGED elapsed_time

NextCatchUp ==
    \/ \E k \in 1..Len(CatchUpPayloads) :
            /\ k <= 2 <=> ~SnapshotReceived
            /\ Room(MaxBacklog, MaxOutbound)
            /\ ClientReceivePacket(CatchUpPayloads, k)
    \/ Room(MaxBacklog, MaxOutbound) /\ ClientConnect
    \/ Room(MaxBacklog, MaxOutbound) /\ ClientDisconnect
    \/ SocketPoll
    \/ \E w \in workers : WorkerFinish(w)
    \/ CatchUpTick

SpecCatchUp ==
    /\ ClientInit
    /\ [][NextCatchUp]_vars
    /\ WF_vars(CatchUpTick)
    /\ WF_vars(SocketPoll)
    /\ WF_vars(\E w \in workers : WorkerFinish(w))

IsDestroyOf(m, b) ==
    m.tag = "PlayerEvent" /\ m.event.type = "DestroyBlock" /\ m.event.index = b

\* C36: a block whose DestroyBlock the client receives after its level
\* snapshot is, in the end, gone from the level the client has installed.
C36_LateDestroyNotLost ==
    \A b \in Blocks :
        (last.kind = "Packet" /\ IsDestroyOf(Received, b))
            ~> (level.some /\ level.scene[b] = "removed")

\* The DestroyBlock has just been received while the level of the
\* snapshot is still loading: nothing has been queued for it.
C36_Witness ==
    /\ last.kind = "Packet"
    /\ IsDestroyOf(Received, 1)
    /\ ~level.some
    /\ load_context # None
    /\ level.events = <<>>
    /\ game_events = <<>>

\* ---------------------------------------------------------------------
\* A client that asks for a load.  Beside Joined, one address sends the
\* server a GameEvent::LoadLevel naming the level and block 1 as
\* destroyed; nobody shoots.
ForgedLoadPayload == serialize(GameEventMessage(LoadLevelEvent(LEVEL_NAME, <<1>>)))

ForgePayloads == << JoinedPayload, ForgedLoadPayload >>

NextForge == NextFor(ForgePayloads, {1}, "void")

SpecForge == Init /\ [][NextForge]_vars

\* C37: handling a packet queues no LoadLevel for Game::update, so that
\* every load the server starts is one it asked for itself.
C37_ClientCannotLoad ==
    [][ last'.kind = "Packet"
        => LoadLevelCount(game_events') = LoadLevelCount(game_events) ]_vars

\* The server has installed a level in which block 1 is gone although
\* nobody has fired a shot: the level a client's packet asked for.
C37_Witness ==
    /\ last.kind = "Tick"
    /\ level.some
    /\ level.scene[1] = "removed"
    /\ load_context = None

\* ---------------------------------------------------------------------
\* Events for somebody else.  Beside Joined, one address sends the server
\* a Jump for player 2 and the spawn of a player with an index that the
\* registry never hands out.
JumpPayload(index) == serialize(PlayerEventMessage(index, ServerEvent("Jump", index)))

HijackPayloads == << JoinedPayload, JumpPayload(2), OwnSpawn(Spoofed) >>

NextHijack == NextFor(HijackPayloads, {1}, "void")

SpecHijack == Init /\ [][NextHijack]_vars

\* C38: every event that the handling of a PlayerEvent packet puts on the
\* level's queue carries the index that the registry holds for the address
\* the packet came from.
C38_EventsTargetSender ==
    [][ (last'.kind = "Packet" /\ ReceivedNow.tag = "PlayerEvent")
        => \A n \in 1..Len(NewEvents) : NewEvents[n].index = SenderIndexNow ]_vars

\* The level holds a player with the index a client made up, which no
\* connection has; and the Jump that the connection with index 1 sent for
\* player 2 waits in the queue while player 2 is in the level.
C38_Witness ==
    /\ HasPlayer(level.players, Spoofed)
    /\ Spoofed \notin Registered(connections)
    /\ HasPlayer(level.players, 2)
    /\ last.kind = "Packet"
    /\ SenderIndex = 1
    /\ Len(level.events) = 1
    /\ level.events[1].type = "Jump"
    /\ level.events[1].index = 2

\* ---------------------------------------------------------------------
\* Snapshots in a row.  A client is sent the level once, the spawn of a
\* player and snapshots of it taken at two times, two events at most
\* between ticks, while its loop runs for MaxRelayTicks ticks.
NextPending ==
    \/ \E k \in 1..Len(SnapshotPayloads) :
            /\ k = 1 => ~level.some
            /\ Room(IF k = 1 THEN MaxQueue ELSE MaxBacklog, MaxOutbound)
            /\ ClientReceivePacket(SnapshotPayloads, k)
    \/ ClientConnect
    \/ SocketPoll
    \/ \E w \in workers : WorkerFinish(w)
    \/ /\ Len(net_sender) <= MaxOutbound
       /\ elapsed_time < ClockAfter(MaxRelayTicks)
       /\ ClientTick
       /\ elapsed_time' = F32Add(elapsed_time, TIMESTEP)

SpecPending == ClientInit /\ [][NextPending]_vars

SnapshotOf(e) == PlayerState(e.timestamp, e.position, e.shoot, e.fuel)

\* C39: no controller ever holds more than one snapshot in new_states;
\* after a level update that applies UpdateState events to a player the
\* buffer holds the last of them or, if the update reconciled it at once,
\* nothing; and where a snapshot was pending before, the smoothing speed
\* afterwards is 0 or what the new snapshot's error gives starting from 0.
C39_OnePendingSnapshot ==
    [][ /\ \A i \in 1..Len(level'.players) :
              Len(level'.players[i].controller.new_states) <= 1
        /\ \A i \in Updated :
              Replacing(i) # {} =>
                 LET p == get_player_by_index(level.players, i)
                     e == level.events[SetMax(Replacing(i))]
                     d == ControllerOf(level'.players, i)
                 IN /\ d.new_states \in {<<>>, <<SnapshotOf(e)>>}
                    /\ p.controller.new_states # <<>>
                          => d.smoothing_speed =
                                IF d.new_states = <<>> THEN 0 ELSE FreshSpeed(p, e) ]_vars

\* After a tick the later snapshot, taken behind the place the player was
\* spawned at, is pending while the player stands in front of that place,
\* where only the earlier snapshot can have drawn it: the earlier one was
\* pending, far from reconciled, when the later one took its place.
C39_Witness ==
    /\ last.kind = "Tick"
    /\ level.some
    /\ \E i \in 1..Len(level.players) :
          LET c == level.players[i].controller IN
          /\ Len(c.new_states) = 1
          /\ c.new_states[1].timestamp = LATER_TIME
          /\ c.smoothing_speed > 0
          /\ level.players[i].position[3] > SpawnPosition(1)[3]

====
